---------------------------- MODULE Spec2Model ----------------------------
(***************************************************************************)
(* Turm & Waechter move chooser: iterative-deepening negamax with          *)
(* alpha-beta, a truncated-hash transposition table, null-move pruning     *)
(* and a phase-driven time budget (gameserver/gat-gameserver/              *)
(* alpha_beta_ki.py), together with the FEN parser (core/fen.py), the win  *)
(* test (win_check.py) and the evaluator (evaluate.py).                    *)
(*                                                                         *)
(* Bitboards are modelled as sets of bit indices (bit = y * SIZE + x).     *)
(* Strings are sequences of one-character strings.  Time is counted in     *)
(* ticks of 0.05 s, relative to the entry of the running top-level call.   *)
(***************************************************************************)
EXTENDS Integers, Sequences, FiniteSets, TLC

(***************************************************************************)
(* Program constants                                                       *)
(***************************************************************************)
MAX_DEPTH == 4

TIME_BUFFER == 1

NULL_MOVE_REDUCTION == 1

WIN_SCORE == 100000

TT_MOD == 10000

SIZE == 7

(* float('inf'): larger than every score the program produces *)
INF == 1000000

(* Python's None: as a square owner, as a piece type, as a distance, as a move *)
NoOwner == 0

NoPiece == "None"

NoDistance == -1

NoMove == <<>>

(***************************************************************************)
(* Sequence helpers                                                        *)
(***************************************************************************)
RECURSIVE Concat(_)
Concat(ss) == IF ss = <<>> THEN <<>> ELSE Head(ss) \o Concat(Tail(ss))

Range(s) == {s[i] : i \in DOMAIN s}

Max(a, b) == IF a >= b THEN a ELSE b

Min(a, b) == IF a <= b THEN a ELSE b

Abs(a) == IF a >= 0 THEN a ELSE -a

(***************************************************************************)
(* Python string operations used by the program                            *)
(***************************************************************************)
Digits == <<"0", "1", "2", "3", "4", "5", "6", "7", "8", "9">>

IsDigit(c) == c \in Range(Digits)

IntOf(c) == (CHOOSE d \in 1..10 : Digits[d] = c) - 1

(* str.count(sub) for a one- or two-character sub: non-overlapping matches *)
RECURSIVE StrCount(_, _)
StrCount(s, sub) ==
  IF Len(s) < Len(sub) THEN 0
  ELSE IF SubSeq(s, 1, Len(sub)) = sub
       THEN 1 + StrCount(SubSeq(s, Len(sub) + 1, Len(s)), sub)
       ELSE StrCount(Tail(s), sub)

(* str.split(sep) for a one-character separator *)
RECURSIVE SplitOn(_, _)
SplitOn(s, sep) ==
  IF \A i \in DOMAIN s : s[i] # sep THEN <<s>>
  ELSE LET k == CHOOSE i \in DOMAIN s : s[i] = sep /\ \A j \in 1..(i-1) : s[j] # sep
       IN <<SubSeq(s, 1, k - 1)>> \o SplitOn(SubSeq(s, k + 1, Len(s)), sep)

(* str.split(): fields separated by runs of blanks, no empty fields *)
SplitBlank(s) == SelectSeq(SplitOn(s, " "), LAMBDA f : f # <<>>)

(* str.endswith(' r') *)
EndsWith(s, suf) ==
  Len(s) >= Len(suf) /\ SubSeq(s, Len(s) - Len(suf) + 1, Len(s)) = suf

(***************************************************************************)
(* Board (core/bitboard.py)                                                *)
(***************************************************************************)
Heights == 1..7

Bit(x, y) == y * SIZE + x

BitX(pos) == pos % SIZE

BitY(pos) == pos \div SIZE

EmptyBoard ==
  [red_guardian |-> {}, blue_guardian |-> {},
   red_towers |-> [h \in Heights |-> {}], blue_towers |-> [h \in Heights |-> {}]]

guardian_of(board, player) ==
  IF player = 1 THEN board.red_guardian ELSE board.blue_guardian

towers_of(board, player) ==
  IF player = 1 THEN board.red_towers ELSE board.blue_towers

TowerBits(board, player) == UNION {towers_of(board, player)[h] : h \in Heights}

(* owner of the stack on a square: 1 red, 2 blue, NoOwner when empty *)
get_stack_owner(board, x, y) ==
  LET pos == Bit(x, y) IN
  IF pos \in board.red_guardian \/ pos \in TowerBits(board, 1) THEN 1
  ELSE IF pos \in board.blue_guardian \/ pos \in TowerBits(board, 2) THEN 2
  ELSE NoOwner

get_top_piece_type(board, x, y) ==
  LET pos == Bit(x, y) IN
  IF pos \in board.red_guardian \/ pos \in board.blue_guardian THEN "WAECHTER"
  ELSE IF pos \in TowerBits(board, 1) \/ pos \in TowerBits(board, 2) THEN "TURM"
  ELSE NoPiece

get_stack_height(board, x, y) ==
  LET pos == Bit(x, y) IN
  IF pos \in board.red_guardian \/ pos \in board.blue_guardian THEN 1
  ELSE IF \E h \in Heights : pos \in board.red_towers[h] \cup board.blue_towers[h]
       THEN CHOOSE h \in Heights : pos \in board.red_towers[h] \cup board.blue_towers[h]
       ELSE 0

(***************************************************************************)
(* FenParser.parse_fen (core/fen.py)                                       *)
(***************************************************************************)
RECURSIVE ParseRow(_, _, _, _, _)
ParseRow(row, i, x, y, board) ==
  IF ~(i < Len(row) /\ x < SIZE) THEN board
  ELSE IF i + 1 < Len(row) /\ SubSeq(row, i + 1, i + 2) = <<"R", "G">>
       THEN ParseRow(row, i + 2, x + 1, y,
                     [board EXCEPT !.red_guardian = @ \cup {Bit(x, y)}])
  ELSE IF i + 1 < Len(row) /\ SubSeq(row, i + 1, i + 2) = <<"B", "G">>
       THEN ParseRow(row, i + 2, x + 1, y,
                     [board EXCEPT !.blue_guardian = @ \cup {Bit(x, y)}])
  ELSE IF row[i + 1] \in {"r", "b"} /\ i + 1 < Len(row) /\ IsDigit(row[i + 2])
       THEN LET height == IntOf(row[i + 2])
                placed == IF height \in Heights
                          THEN IF row[i + 1] = "r"
                               THEN [board EXCEPT !.red_towers[height] = @ \cup {Bit(x, y)}]
                               ELSE [board EXCEPT !.blue_towers[height] = @ \cup {Bit(x, y)}]
                          ELSE board
            IN ParseRow(row, i + 2, x + 1, y, placed)
  ELSE IF IsDigit(row[i + 1])
       THEN ParseRow(row, i + 1, x + IntOf(row[i + 1]), y, board)
  ELSE ParseRow(row, i + 1, x, y, board)

RECURSIVE ParseRows(_, _, _)
ParseRows(rows, y, board) ==
  IF rows = <<>> \/ y >= SIZE THEN board
  ELSE LET parsed == ParseRow(Head(rows), 0, 0, y, board)
       IN (* the row is read to its end before the next one is started *)
          IF parsed = board THEN ParseRows(Tail(rows), y + 1, board)
          ELSE ParseRows(Tail(rows), y + 1, parsed)

parse_fen(fen_str) ==
  LET parts == SplitBlank(fen_str)
      current_player == IF parts[2] = <<"r">> THEN 1 ELSE 2
  IN [board |-> ParseRows(SplitOn(parts[1], "/"), 0, EmptyBoard),
      player |-> current_player]

(***************************************************************************)
(* BitboardBoard.to_fen (core/bitboard.py)                                 *)
(***************************************************************************)
CellText(board, x, y) ==
  LET pos == Bit(x, y) IN
  IF pos \in board.red_guardian THEN <<"R", "G">>
  ELSE IF pos \in board.blue_guardian THEN <<"B", "G">>
  ELSE IF pos \in TowerBits(board, 1)
       THEN <<"r", Digits[get_stack_height(board, x, y) + 1]>>
  ELSE IF pos \in TowerBits(board, 2)
       THEN <<"b", Digits[get_stack_height(board, x, y) + 1]>>
  ELSE <<>>

RECURSIVE RowText(_, _, _, _)
RowText(board, x, y, empties) ==
  LET flush == IF empties > 0 THEN <<Digits[empties + 1]>> ELSE <<>> IN
  IF x >= SIZE THEN flush
  ELSE IF CellText(board, x, y) = <<>> THEN RowText(board, x + 1, y, empties + 1)
  ELSE flush \o CellText(board, x, y) \o RowText(board, x + 1, y, 0)

to_fen(board, player) ==
  Concat([y \in 1..SIZE |->
            RowText(board, 0, y - 1, 0) \o (IF y < SIZE THEN <<"/">> ELSE <<" ">>)])
  \o <<IF player = 1 THEN "r" ELSE "b">>


(***************************************************************************)
(* BitboardRules (core/bitboard_rules.py): move generation and execution   *)
(***************************************************************************)
Directions == << <<1, 0>>, <<-1, 0>>, <<0, 1>>, <<0, -1>> >>

OnBoard(x, y) == x \in 0..(SIZE - 1) /\ y \in 0..(SIZE - 1)

(* a tower may land on an empty square, on an own tower (stacking up to 7), *)
(* on an enemy tower no higher than the moved part, or on the enemy guardian *)
TowerMayLand(board, player, tx, ty, k) ==
  LET owner == get_stack_owner(board, tx, ty)
      kind == get_top_piece_type(board, tx, ty)
      th == get_stack_height(board, tx, ty)
  IN \/ owner = NoOwner
     \/ owner = player /\ kind = "TURM" /\ th + k <= 7
     \/ owner = 3 - player /\ (kind = "WAECHTER" \/ th <= k)

PathClear(board, x, y, d, k) ==
  \A j \in 1..(k - 1) : get_stack_owner(board, x + j * d[1], y + j * d[2]) = NoOwner

MovesFrom(board, player, pos) ==
  LET x == BitX(pos)
      y == BitY(pos)
      H == get_stack_height(board, x, y)
      guardianStep(d) ==
        LET tx == x + d[1]
            ty == y + d[2]
        IN IF OnBoard(tx, ty) /\ get_stack_owner(board, tx, ty) # player
           THEN << <<<<x, y>>, <<tx, ty>>, 1>> >> ELSE <<>>
      towerStep(d, k) ==
        LET tx == x + k * d[1]
            ty == y + k * d[2]
        IN IF OnBoard(tx, ty) /\ PathClear(board, x, y, d, k)
              /\ TowerMayLand(board, player, tx, ty, k)
           THEN << <<<<x, y>>, <<tx, ty>>, k>> >> ELSE <<>>
  IN IF pos \in guardian_of(board, player)
     THEN Concat([i \in 1..4 |-> guardianStep(Directions[i])])
     ELSE IF pos \in TowerBits(board, player)
     THEN Concat([i \in 1..4 |-> Concat([k \in 1..H |-> towerStep(Directions[i], k)])])
     ELSE <<>>

get_legal_moves(board, player) ==
  Concat([p \in 1..(SIZE * SIZE) |-> MovesFrom(board, player, p - 1)])

ClearSquare(board, pos) ==
  [red_guardian |-> board.red_guardian \ {pos},
   blue_guardian |-> board.blue_guardian \ {pos},
   red_towers |-> [h \in Heights |-> board.red_towers[h] \ {pos}],
   blue_towers |-> [h \in Heights |-> board.blue_towers[h] \ {pos}]]

PutTower(board, player, pos, h) ==
  IF player = 1 THEN [board EXCEPT !.red_towers[h] = @ \cup {pos}]
  ELSE [board EXCEPT !.blue_towers[h] = @ \cup {pos}]

PutGuardian(board, player, pos) ==
  IF player = 1 THEN [board EXCEPT !.red_guardian = @ \cup {pos}]
  ELSE [board EXCEPT !.blue_guardian = @ \cup {pos}]

make_move(board, mv) ==
  LET frm == Bit(mv[1][1], mv[1][2])
      to == Bit(mv[2][1], mv[2][2])
      h == mv[3]
      mover == get_stack_owner(board, mv[1][1], mv[1][2])
      kind == get_top_piece_type(board, mv[1][1], mv[1][2])
      H == get_stack_height(board, mv[1][1], mv[1][2])
      destOwner == get_stack_owner(board, mv[2][1], mv[2][2])
      destH == get_stack_height(board, mv[2][1], mv[2][2])
      lifted == ClearSquare(ClearSquare(board, frm), to)
  IN IF kind = "WAECHTER" THEN PutGuardian(lifted, mover, to)
     ELSE LET rest == IF H > h THEN PutTower(lifted, mover, frm, H - h) ELSE lifted
              landed == IF destOwner = mover THEN destH + h ELSE h
          IN PutTower(rest, mover, to, landed)

(***************************************************************************)
(* win_check.py and distance_test.py                                       *)
(***************************************************************************)
TargetOf(player) == IF player = 1 THEN <<3, 6>> ELSE <<3, 0>>

MaxOf(S) == CHOOSE m \in S : \A o \in S : o <= m

distance_to_opponent_start(board, player) ==
  LET g == guardian_of(board, player) IN
  IF g = {} THEN NoDistance
  ELSE Abs(BitX(MaxOf(g)) - TargetOf(player)[1]) + Abs(BitY(MaxOf(g)) - TargetOf(player)[2])

opponent_guardian_exists_OwnSide(board, opponent) ==
  IF opponent = 1 THEN board.blue_guardian # {} ELSE board.red_guardian # {}

opponent_guardian_exists(board, opponent) ==
  IF opponent = 1 THEN board.red_guardian # {} ELSE board.blue_guardian # {}

check_win_by_distance_or_capture(board, player) ==
  IF distance_to_opponent_start(board, player) = 0 THEN TRUE
  ELSE IF ~opponent_guardian_exists(board, 3 - player) THEN TRUE
  ELSE FALSE

(***************************************************************************)
(* evaluate.py                                                             *)
(***************************************************************************)
DEFAULT_PARAMS ==
  [material_weight |-> 80, guardian_advance |-> 40, guardian_safety |-> 200,
   center_control |-> 25, tower_height |-> 20, aggression |-> 50,
   mobility |-> 10, positioning |-> 10, tempo |-> 20, win_bonus |-> 10000]

RECURSIVE SumFn(_, _)
SumFn(f, S) ==
  IF S = {} THEN 0
  ELSE LET x == CHOOSE x \in S : TRUE IN f[x] + SumFn(f, S \ {x})

center_squares == {<<2, 3>>, <<3, 3>>, <<4, 3>>, <<2, 4>>, <<3, 4>>, <<4, 4>>}

EvalScore(board, player, params) ==
  LET my_guard_bb == guardian_of(board, player)
      enemy_guard_bb == guardian_of(board, 3 - player)
      my_towers == towers_of(board, player)
      enemy_towers == towers_of(board, 3 - player)
      my_target == TargetOf(player)
      my_pieces == SumFn([h \in Heights |-> Cardinality(my_towers[h])], Heights)
                   + Cardinality(my_guard_bb)
      enemy_pieces == SumFn([h \in Heights |-> Cardinality(enemy_towers[h])], Heights)
                      + Cardinality(enemy_guard_bb)
      my_height_total ==
        SumFn([h \in Heights |-> IF h >= 3 THEN h * Cardinality(my_towers[h]) ELSE 0], Heights)
      enemy_height_total ==
        SumFn([h \in Heights |-> IF h >= 3 THEN h * Cardinality(enemy_towers[h]) ELSE 0], Heights)
      material == params.material_weight * (my_pieces - enemy_pieces)
                  + params.tower_height * (my_height_total - enemy_height_total)
      guardian ==
        IF my_guard_bb # {}
        THEN LET gx == BitX(MaxOf(my_guard_bb))
                 gy == BitY(MaxOf(my_guard_bb))
                 dist_to_target == Abs(gx - my_target[1]) + Abs(gy - my_target[2])
                 center_dist == Abs(gx - 3) + Abs(gy - 3)
                 edge_dist == Min(Min(gx, SIZE - 1 - gx), Min(gy, SIZE - 1 - gy))
             IN - params.guardian_advance * dist_to_target
                + params.center_control * Max(0, 3 - center_dist)
                - (IF edge_dist = 0 THEN params.guardian_safety \div 2 ELSE 0)
        ELSE 0
      my_center ==
        Cardinality({c \in center_squares : get_stack_owner(board, c[1], c[2]) = player})
      enemy_center ==
        Cardinality({c \in center_squares : get_stack_owner(board, c[1], c[2]) = 3 - player})
      mobility_score == SumFn([h \in 1..3 |-> Cardinality(my_towers[h]) * h], 1..3)
      threats ==
        IF enemy_guard_bb # {}
        THEN LET ex == BitX(MaxOf(enemy_guard_bb))
                 ey == BitY(MaxOf(enemy_guard_bb))
             IN SumFn([h \in 1..3 |->
                        Cardinality({pos \in 0..(Min(20, SIZE * SIZE) - 1) :
                                       /\ pos \in my_towers[h]
                                       /\ Abs(BitX(pos) - ex) + Abs(BitY(pos) - ey) <= h + 1})],
                      1..3)
        ELSE 0
      middle == SIZE \div 2
      my_advanced ==
        IF player = 1
        THEN SumFn([h \in 1..2 |->
                     Cardinality({pos \in 0..(SIZE * middle - 1) : pos \in my_towers[h]})], 1..2)
        ELSE 0
      enemy_advanced ==
        IF player = 2
        THEN SumFn([h \in 1..2 |->
                     Cardinality({pos \in 0..(SIZE * middle - 1) : pos \in enemy_towers[h]})], 1..2)
        ELSE 0
      tempo_score == my_pieces * 2 - enemy_pieces
  IN material + guardian
     + params.center_control * (my_center - enemy_center)
     + params.mobility * mobility_score
     + params.aggression * threats
     + params.positioning * (my_advanced - enemy_advanced)
     + params.tempo * tempo_score

(* the win bonus counted once per square of the board *)
evaluate_BonusPerSquare(fen_str, params) ==
  LET parsed == parse_fen(fen_str)
      board == parsed.board
      player == parsed.player
  IN IF check_win_by_distance_or_capture(board, player) THEN params.win_bonus * SIZE * SIZE
     ELSE IF check_win_by_distance_or_capture(board, 3 - player) THEN - params.win_bonus
     ELSE IF player = 1 THEN EvalScore(board, player, params)
     ELSE - EvalScore(board, player, params)

evaluate(fen_str, params) ==
  LET parsed == parse_fen(fen_str)
      board == parsed.board
      player == parsed.player
  IN IF check_win_by_distance_or_capture(board, player) THEN params.win_bonus
     ELSE IF check_win_by_distance_or_capture(board, 3 - player) THEN - params.win_bonus
     ELSE IF player = 1 THEN EvalScore(board, player, params)
     ELSE - EvalScore(board, player, params)

(***************************************************************************)
(* Game-phase classifier and time budget (alpha_beta_ki.py)                *)
(***************************************************************************)
PlayerOfTag(fen_str) == IF EndsWith(fen_str, <<" ", "r">>) THEN 1 ELSE 2

count_my_pieces(fen_str) ==
  IF PlayerOfTag(fen_str) = 1
  THEN StrCount(fen_str, <<"r">>) + StrCount(fen_str, <<"R", "G">>)
  ELSE StrCount(fen_str, <<"b">>) + StrCount(fen_str, <<"B", "G">>)

count_enemy_pieces(fen_str) ==
  IF PlayerOfTag(fen_str) = 1
  THEN StrCount(fen_str, <<"b">>) + StrCount(fen_str, <<"B", "G">>)
  ELSE StrCount(fen_str, <<"r">>) + StrCount(fen_str, <<"R", "G">>)

diff_of_pieces(fen_str) == count_my_pieces(fen_str) - count_enemy_pieces(fen_str)

(* list slice rows[lo:hi] with Python's 0-based, end-exclusive bounds *)
Slice(rows, lo, hi) == SubSeq(rows, lo + 1, Min(hi, Len(rows)))

count_enemy_pieces_in_half(fen_str) ==
  LET player == PlayerOfTag(fen_str)
      rows == SplitOn(SplitBlank(fen_str)[1], "/")
      our_half_rows == IF player = 1 THEN Slice(rows, 4, 7) ELSE Slice(rows, 0, 3)
      enemy_pieces == IF player = 1 THEN << <<"b">>, <<"B", "G">> >>
                      ELSE << <<"r">>, <<"R", "G">> >>
  IN SumFn([i \in DOMAIN our_half_rows |->
              StrCount(our_half_rows[i], enemy_pieces[1])
              + StrCount(our_half_rows[i], enemy_pieces[2])],
           DOMAIN our_half_rows)

detect_game_phase_LowMaterialTwo(fen_str) ==
  LET piece_diff == diff_of_pieces(fen_str)
      enemy_in_half == count_enemy_pieces_in_half(fen_str)
      my_pieces == count_my_pieces(fen_str)
      enemy_pieces == count_enemy_pieces(fen_str)
      total == my_pieces + enemy_pieces
      base == IF total >= 12 THEN "opening"
              ELSE IF total >= 7 THEN "midgame" ELSE "endgame"
      crit == (IF piece_diff <= -3 THEN 2 ELSE IF piece_diff <= -1 THEN 1 ELSE 0)
              + (IF enemy_in_half >= 3 THEN 2 ELSE IF enemy_in_half >= 1 THEN 1 ELSE 0)
              + (IF my_pieces <= 2 \/ enemy_pieces <= 2 THEN 2 ELSE 0)
  IN IF crit >= 3 THEN "critical"
     ELSE IF crit >= 1 /\ base # "endgame"
          THEN (IF base = "opening" THEN "opening_critical" ELSE "midgame_critical")
     ELSE base

detect_game_phase(fen_str) ==
  LET piece_diff == diff_of_pieces(fen_str)
      enemy_in_half == count_enemy_pieces_in_half(fen_str)
      my_pieces == count_my_pieces(fen_str)
      enemy_pieces == count_enemy_pieces(fen_str)
      total == my_pieces + enemy_pieces
      base == IF total >= 12 THEN "opening"
              ELSE IF total >= 7 THEN "midgame" ELSE "endgame"
      crit == (IF piece_diff <= -3 THEN 2 ELSE IF piece_diff <= -1 THEN 1 ELSE 0)
              + (IF enemy_in_half >= 3 THEN 2 ELSE IF enemy_in_half >= 1 THEN 1 ELSE 0)
              + (IF my_pieces <= 2 \/ enemy_pieces <= 2 THEN 3 ELSE 0)
  IN IF crit >= 3 THEN "critical"
     ELSE IF crit >= 1 /\ base # "endgame"
          THEN (IF base = "opening" THEN "opening_critical" ELSE "midgame_critical")
     ELSE base

(* seconds * 20: one tick is 0.05 s *)
PhaseBudget_MidgameCriticalShort(phase) ==
  CASE phase = "opening" -> 4
    [] phase = "midgame" -> 6
    [] phase = "opening_critical" -> 8
    [] phase = "midgame_critical" -> 6
    [] phase = "critical" -> 10
    [] phase = "endgame" -> 4
    [] phase = "endgame_critical" -> 4
    [] OTHER -> 4

PhaseBudget(phase) ==
  CASE phase = "opening" -> 4
    [] phase = "midgame" -> 6
    [] phase = "opening_critical" -> 8
    [] phase = "midgame_critical" -> 10
    [] phase = "critical" -> 10
    [] phase = "endgame" -> 4
    [] phase = "endgame_critical" -> 4
    [] OTHER -> 4

allocate_time(fen_str) == PhaseBudget(detect_game_phase(fen_str))

(***************************************************************************)
(* order_moves_fast (alpha_beta_ki.py)                                     *)
(***************************************************************************)
IsGuardianMove(rules, mv) ==
  get_top_piece_type(rules.board, mv[1][1], mv[1][2]) = "WAECHTER"

IsCaptureMove(rules, mv) ==
  LET target_owner == get_stack_owner(rules.board, mv[2][1], mv[2][2])
  IN target_owner # NoOwner /\ target_owner # rules.current_player

order_moves_fast(rules, moves) ==
  LET guardian_moves == SelectSeq(moves, LAMBDA mv : IsGuardianMove(rules, mv))
      capture_moves ==
        SelectSeq(moves, LAMBDA mv : ~IsGuardianMove(rules, mv) /\ IsCaptureMove(rules, mv))
      other_moves ==
        SelectSeq(moves, LAMBDA mv : ~IsGuardianMove(rules, mv) /\ ~IsCaptureMove(rules, mv))
  IN IF moves = <<>> THEN moves
     ELSE guardian_moves \o capture_moves \o other_moves


(***************************************************************************)
(* Root positions handed to choose_best_move                               *)
(***************************************************************************)
(* 3RG3/7/7/7/7/7/3BG3 r : guardians only, far apart *)
FenDuel ==
  <<"3", "R", "G", "3", "/", "7", "/", "7", "/", "7", "/", "7", "/", "7", "/", "3", "B", "G", "3", " ", "r">>

(* 7/7/7/7/7/3RG3/3BG3 r : the third ordered move captures the guardian *)
FenWinThird ==
  <<"7", "/", "7", "/", "7", "/", "7", "/", "7", "/", "3", "R", "G", "3", "/", "3", "B", "G", "3", " ", "r">>

(* 3RG3/7/7/7/7/7/2r1BG3 r : the only winning move is a tower capture, fourth in order *)
FenWinLate ==
  <<"3", "R", "G", "3", "/", "7", "/", "7", "/", "7", "/", "7", "/", "7", "/", "2", "r", "1", "B", "G", "3", " ", "r">>

(* 7/3BG3/7/7/7/7/RG6 b : the only winning move is the fourth guardian move *)
FenWinFourth ==
  <<"7", "/", "3", "B", "G", "3", "/", "7", "/", "7", "/", "7", "/", "7", "/", "R", "G", "6", " ", "b">>

(* 7/7/7/7/7/7/3BG3 r : the side to move has no unit *)
FenNoMoves ==
  <<"7", "/", "7", "/", "7", "/", "7", "/", "7", "/", "7", "/", "3", "B", "G", "3", " ", "r">>

(* 7/3RG3/2r1r13/7/7/3BG3/7 r : two red towers, guardians on both sides *)
FenTowers ==
  <<"7", "/", "3", "R", "G", "3", "/", "2", "r", "1", "r", "1", "3", "/", "7", "/", "7", "/", "3", "B", "G", "3", "/", "7", " ", "r">>

(* 3BG3/7/3RG3/7/7/7/7 r : the opponent's guardian already stands on its target *)
FenOver ==
  <<"3", "B", "G", "3", "/", "7", "/", "3", "R", "G", "3", "/", "7", "/", "7", "/", "7", "/", "7", " ", "r">>

RootFens ==
  {FenDuel, FenWinThird, FenWinLate, FenWinFourth, FenNoMoves, FenTowers, FenOver}

(* 7/3RG3/2r1r13/7/7/3BG3/7 b : FenTowers with blue to move, so that the *)
(* towers belong to the side that moves at the root's children          *)
FenTowersBlue ==
  <<"7", "/", "3", "R", "G", "3", "/", "2", "r", "1", "r", "1", "3", "/", "7", "/", "7", "/", "3", "B", "G", "3", "/", "7", " ", "b">>

(* 7/7/2r1b13/7/7/7/RG5BG r : the best moves are tower moves late in the order *)
FenSkirmish ==
  <<"7", "/", "7", "/", "2", "r", "1", "b", "1", "3", "/", "7", "/", "7", "/", "7", "/", "R", "G", "5", "B", "G", " ", "r">>

(* RG6/7/2r1b13/7/7/7/6BG b : the best move is the capture, third in the order *)
FenSkirmishBlue ==
  <<"R", "G", "6", "/", "7", "/", "2", "r", "1", "b", "1", "3", "/", "7", "/", "7", "/", "7", "/", "6", "B", "G", " ", "b">>

(* RG6/2r24/7/2b14/7/7/6BG r : one best move, seventh in the order *)
FenTall ==
  <<"R", "G", "6", "/", "2", "r", "2", "4", "/", "7", "/", "2", "b", "1", "4", "/", "7", "/", "7", "/", "6", "B", "G", " ", "r">>

(* the roots of the searches compared with the search over all moves *)
PlainFens == RootFens \cup {FenSkirmish, FenSkirmishBlue, FenTall}

(* the roots of the searches run with a benchmark's depth ceiling *)
ProbeFens == {FenTowers, FenTowersBlue, FenWinFourth, FenOver}

(***************************************************************************)
(* hash(fen) % 10000.  Python's string hash is fixed within one process    *)
(* and differs between processes; it is modelled as the polynomial         *)
(* sum ord(c) * seed^k with a per-process seed, reduced modulo 10000.      *)
(***************************************************************************)
HashSeeds == {1, 31}

(* the seed value that stands for a collision-free hash: the key holds the *)
(* serialization itself                                                   *)
FullKey == 0

Ord(c) ==
  CASE c = " " -> 32 [] c = "/" -> 47
    [] c = "B" -> 66 [] c = "G" -> 71 [] c = "R" -> 82
    [] c = "b" -> 98 [] c = "r" -> 114
    [] OTHER -> 48 + IntOf(c)

RECURSIVE HashMod(_, _, _)
HashMod(s, seed, acc) ==
  IF s = <<>> THEN acc
  ELSE HashMod(Tail(s), seed, (acc * seed + Ord(Head(s))) % TT_MOD)

(***************************************************************************)
(* State                                                                   *)
(***************************************************************************)
VARIABLES
  pc,               \* "idle" | "root" | "call" | "ret" | "raise"
  stack,            \* active negamax frames, innermost last
  retval,           \* value returned by the negamax call that just ended
  nodes_visited,    \* module global
  ttable,           \* module global
  time_start,       \* module global
  time_budget,      \* module global
  max_depth,        \* module global MAX_DEPTH (benchmarks assign it)
  hash_seed,        \* the process's string-hash seed
  now,              \* last value read from time.time()
  fen_in,           \* argument of the running / last choose_best_move
  root_rules,       \* iterative_deepening: rules
  root_moves,       \* iterative_deepening: root_moves
  best_mv,          \* iterative_deepening: best_mv
  depth,            \* iterative_deepening: depth
  alpha,            \* iterative_deepening: alpha
  beta,             \* iterative_deepening: beta
  local_best,       \* iterative_deepening: local_best
  mv_idx,           \* iterative_deepening: position in root_moves
  stop_time,        \* iterative_deepening: stop_time
  result,           \* value returned by choose_best_move
  ret_path,         \* which return statement produced result
  completed_mv,     \* best_mv as it stood when the last full depth ended
  noted,            \* a caller's note of one finished call: <<fen_str, move>>
  ph_fen,           \* classifier run: the position string
  ph_phase,         \* classifier run: detect_game_phase's result
  ph_budget,        \* classifier run: allocate_time's result
  arg,              \* a function applied on its own: its arguments
  out               \* a function applied on its own: <<>>, then <<what it returned>>

vars == <<pc, stack, retval, nodes_visited, ttable, time_start, time_budget,
          max_depth, hash_seed, now, fen_in, root_rules, root_moves, best_mv,
          depth, alpha, beta, local_best, mv_idx, stop_time, result, ret_path,
          completed_mv, noted, ph_fen, ph_phase, ph_budget, arg, out>>

globals == <<nodes_visited, ttable, time_start, time_budget>>

process == <<max_depth, hash_seed>>

classifier == <<ph_fen, ph_phase, ph_budget>>

applied == <<arg, out>>

(* what no step of a search touches *)
aside == <<noted, classifier, applied>>

locals == <<root_rules, root_moves, best_mv, depth, alpha, beta, local_best,
            mv_idx, stop_time, completed_mv>>

EmptyTable == [k \in {} |-> 0]

(* latest clock reading considered *)
MaxClock == 10

(* time.time(): the clock never runs backwards *)
ClockReads(t) == {t, Max(t, MaxClock)}

Expired(t, stop) == t >= stop - TIME_BUFFER

TableStore(table, key, val) ==
  [k \in DOMAIN table \cup {key} |-> IF k = key THEN val ELSE table[k]]

InitCommon ==
  /\ pc = "idle"
  /\ stack = <<>>
  /\ retval = 0
  /\ nodes_visited = 0
  /\ ttable = EmptyTable
  /\ time_start = 0
  /\ time_budget = 0
  /\ now = 0
  /\ fen_in = <<>>
  /\ root_rules = [board |-> EmptyBoard, current_player |-> 1]
  /\ root_moves = <<>>
  /\ best_mv = NoMove
  /\ depth = 0
  /\ alpha = -INF
  /\ beta = INF
  /\ local_best = -INF
  /\ mv_idx = 0
  /\ stop_time = 0
  /\ result = NoMove
  /\ ret_path = "none"
  /\ completed_mv = NoMove
  /\ noted = <<>>

(* no function has been applied on its own *)
Unapplied == arg = <<>> /\ out = <<>>

(* the depth ceilings a process runs with: the benchmark's first depth and *)
(* the module's own setting                                                *)
DepthCaps == {1, MAX_DEPTH}

Init ==
  /\ InitCommon
  /\ hash_seed \in HashSeeds
  /\ max_depth \in DepthCaps
  /\ ph_fen = <<>>
  /\ ph_phase = "none"
  /\ ph_budget = 0
  /\ Unapplied

(***************************************************************************)
(* choose_best_move                                                        *)
(***************************************************************************)
RulesOf(fen_str) ==
  [board |-> parse_fen(fen_str).board, current_player |-> parse_fen(fen_str).player]

(* the root list generated for the side that is not to move *)
OrderedRootMoves_OtherSide(rules) ==
  order_moves_fast(rules, get_legal_moves(rules.board, 3 - rules.current_player))

OrderedRootMoves(rules) ==
  order_moves_fast(rules, get_legal_moves(rules.board, rules.current_player))

(* lines 308-312: the first of moves[:3] that wins at once, NoMove if none does *)
QuickWin(rules, moves) ==
  LET wins == {i \in 1..Min(3, Len(moves)) :
                 check_win_by_distance_or_capture(make_move(rules.board, moves[i]),
                                                  rules.current_player)}
  IN IF wins = {} THEN NoMove
     ELSE moves[CHOOSE i \in wins : \A j \in wins : i <= j]

(* lines 295-312 for each root position: what choose_best_move computes *)
(* from its argument before it searches                                 *)
Prepared ==
  [fen_str \in RootFens \cup ProbeFens \cup PlainFens |->
     LET rules == RulesOf(fen_str)
         moves == OrderedRootMoves(rules)
     IN [rules |-> rules, moves |-> moves, budget |-> allocate_time(fen_str),
         quick |-> QuickWin(rules, moves)]]

Return(mv, path) ==
  /\ pc' = "idle"
  /\ result' = mv
  /\ ret_path' = path

(* lines 293-312: the quick win check returns a move *)
ChooseQuickWin(fen_str) ==
  /\ pc = "idle"
  /\ Prepared[fen_str].quick # NoMove
  /\ Return(Prepared[fen_str].quick, "quick_win")
  /\ fen_in' = fen_str
  /\ UNCHANGED <<stack, retval, globals, process, aside, now, locals>>

(* lines 293-314 and 255-274: no quick win; iterative_deepening is entered *)
ChooseSearch(fen_str) ==
  /\ pc = "idle"
  /\ Prepared[fen_str].quick = NoMove
  /\ fen_in' = fen_str
  /\ nodes_visited' = 0
  /\ ttable' = EmptyTable
  /\ now' = 0
  /\ time_start' = now'
  /\ time_budget' = Prepared[fen_str].budget
  /\ stop_time' = time_start' + Prepared[fen_str].budget
  /\ root_rules' = Prepared[fen_str].rules
  /\ root_moves' = Prepared[fen_str].moves
  /\ best_mv' = NoMove
  /\ completed_mv' = NoMove
  /\ depth' = 1
  /\ alpha' = -INF
  /\ beta' = INF
  /\ local_best' = -INF
  /\ mv_idx' = 1
  /\ pc' = "root"
  /\ result' = NoMove
  /\ ret_path' = "running"
  /\ UNCHANGED <<stack, retval, process, aside>>

(***************************************************************************)
(* negamax frames                                                          *)
(***************************************************************************)
(* a callee is given the deadline extended by the buffer *)
Frame_ExtendedDeadline(rules, d, a, b, player, stop) ==
  [rules |-> rules, depth |-> d, alpha |-> a, beta |-> b, player |-> player,
   stop_time |-> stop + TIME_BUFFER, stage |-> "entry", key |-> <<>>, moves |-> <<>>,
   i |-> 0, best |-> -INF]

Frame(rules, d, a, b, player, stop) ==
  [rules |-> rules, depth |-> d, alpha |-> a, beta |-> b, player |-> player,
   stop_time |-> stop, stage |-> "entry", key |-> <<>>, moves |-> <<>>,
   i |-> 0, best |-> -INF]

Top == stack[Len(stack)]

Pop == SubSeq(stack, 1, Len(stack) - 1)

(* lines 242-244 and 278-280: deepcopy, make_move, current_player flipped *)
ChildRules(rules, mv, player) ==
  [board |-> make_move(rules.board, mv), current_player |-> 3 - player]

(* lines 200-201 *)
NodeFen(f) == to_fen(f.rules.board, f.player)

(* the remaining depth is left out of the key *)
NodeKey_NoDepth(f) ==
  <<IF hash_seed = FullKey THEN NodeFen(f) ELSE HashMod(NodeFen(f), hash_seed, 0), 0>>

NodeKey(f) ==
  <<IF hash_seed = FullKey THEN NodeFen(f) ELSE HashMod(NodeFen(f), hash_seed, 0),
    f.depth>>

(* line 213 *)
NodeMoves(f) == get_legal_moves(f.rules.board, f.player)

(***************************************************************************)
(* iterative_deepening: the loop over depths and root moves                *)
(***************************************************************************)
(* range(1, MAX_DEPTH + 2) *)
DepthRange_OneMore == 1..(max_depth + 1)

(* line 271: the depths the driver searches *)
DepthRange == 1..max_depth

(* lines 276-281: the deadline has not passed; the next root move is searched *)
RootDescend ==
  /\ pc = "root"
  /\ mv_idx <= Len(root_moves)
  /\ \E t \in ClockReads(now) :
       /\ ~Expired(t, stop_time)
       /\ now' = t
  /\ stack' = <<Frame(ChildRules(root_rules, root_moves[mv_idx], root_rules.current_player),
                      depth - 1, -beta, -alpha, 3 - root_rules.current_player, stop_time)>>
  /\ pc' = "call"
  /\ UNCHANGED <<retval, globals, process, aside, fen_in, locals, result, ret_path>>

(* the deadline check placed at the top of a depth, outside the move loop *)
RootTimeout_OutsideMoveLoop ==
  /\ pc = "root"
  /\ \E t \in ClockReads(now) :
       /\ Expired(t, stop_time)
       /\ now' = t
  /\ Return(best_mv, "timeout")
  /\ UNCHANGED <<stack, retval, globals, process, aside, fen_in, locals>>

(* lines 276-277, 287-290: the deadline check of the root loop raises *)
RootTimeout ==
  /\ pc = "root"
  /\ mv_idx <= Len(root_moves)
  /\ \E t \in ClockReads(now) :
       /\ Expired(t, stop_time)
       /\ now' = t
  /\ Return(best_mv, "timeout")
  /\ UNCHANGED <<stack, retval, globals, process, aside, fen_in, locals>>

(* score >= local_best: the last of equally scored root moves is kept *)
RootScored_LastOfEquals ==
  LET score == -retval
      better == score >= local_best
  IN [local_best |-> IF better THEN score ELSE local_best,
      best_mv |-> IF better THEN root_moves[mv_idx] ELSE best_mv,
      alpha |-> Max(alpha, score)]

(* lines 282-284 *)
RootScored ==
  LET score == -retval
      better == score > local_best
  IN [local_best |-> IF better THEN score ELSE local_best,
      best_mv |-> IF better THEN root_moves[mv_idx] ELSE best_mv,
      alpha |-> Max(alpha, score)]

(* lines 281-286: a root child returned and the proven win ends the search *)
RootScoreProven ==
  /\ pc = "ret"
  /\ stack = <<>>
  /\ RootScored.local_best >= WIN_SCORE
  /\ local_best' = RootScored.local_best
  /\ best_mv' = RootScored.best_mv
  /\ alpha' = RootScored.alpha
  /\ Return(RootScored.best_mv, "proven_win")
  /\ UNCHANGED <<stack, retval, globals, process, aside, now, fen_in, root_rules, root_moves,
                 depth, beta, mv_idx, stop_time, completed_mv>>

(* lines 281-285: a root child returned and the loop goes on *)
RootScoreContinue ==
  /\ pc = "ret"
  /\ stack = <<>>
  /\ RootScored.local_best < WIN_SCORE
  /\ local_best' = RootScored.local_best
  /\ best_mv' = RootScored.best_mv
  /\ alpha' = RootScored.alpha
  /\ mv_idx' = mv_idx + 1
  /\ pc' = "root"
  /\ UNCHANGED <<stack, retval, globals, process, aside, now, fen_in, root_rules, root_moves,
                 depth, beta, stop_time, completed_mv, result, ret_path>>

(* lines 271-275: every root move of this depth is done; the next depth starts *)
RootNextDepth ==
  /\ pc = "root"
  /\ mv_idx > Len(root_moves)
  /\ depth + 1 \in DepthRange
  /\ depth' = depth + 1
  /\ alpha' = -INF
  /\ beta' = INF
  /\ local_best' = -INF
  /\ mv_idx' = 1
  /\ completed_mv' = best_mv
  /\ UNCHANGED <<pc, stack, retval, globals, process, aside, now, fen_in, root_rules,
                 root_moves, best_mv, stop_time, result, ret_path>>

(* lines 271, 290: the last depth is done *)
RootFinish ==
  /\ pc = "root"
  /\ mv_idx > Len(root_moves)
  /\ depth + 1 \notin DepthRange
  /\ completed_mv' = best_mv
  /\ Return(best_mv, "complete")
  /\ UNCHANGED <<stack, retval, globals, process, aside, now, fen_in, root_rules, root_moves,
                 best_mv, depth, alpha, beta, local_best, mv_idx, stop_time>>

(***************************************************************************)
(* negamax: node entry (lines 193-220)                                     *)
(***************************************************************************)
(* lines 194-195 *)
NegamaxTimeout ==
  /\ pc = "call"
  /\ \E t \in ClockReads(now) :
       /\ Expired(t, Top.stop_time)
       /\ now' = t
  /\ pc' = "raise"
  /\ UNCHANGED <<stack, retval, globals, process, aside, fen_in, locals, result, ret_path>>

(* the clock read of a node entry that goes on *)
Entered ==
  /\ pc = "call"
  /\ \E t \in ClockReads(now) :
       /\ ~Expired(t, Top.stop_time)
       /\ now' = t
  /\ nodes_visited' = nodes_visited + 1

(* a negamax call returns val to its caller *)
ReturnValue(val) ==
  /\ stack' = Pop
  /\ retval' = val
  /\ pc' = "ret"

WonHere(f) == check_win_by_distance_or_capture(f.rules.board, f.player)

LostHere(f) == check_win_by_distance_or_capture(f.rules.board, 3 - f.player)

(* the node is counted after the table lookup: a hit is not counted *)
NegamaxTTHit_Uncounted ==
  /\ pc = "call"
  /\ \E t \in ClockReads(now) :
       /\ ~Expired(t, Top.stop_time)
       /\ now' = t
  /\ NodeKey(Top) \in DOMAIN ttable
  /\ ReturnValue(ttable[NodeKey(Top)])
  /\ UNCHANGED <<globals, process, aside, fen_in, locals, result, ret_path>>

(* lines 197-203 *)
NegamaxTTHit ==
  /\ Entered
  /\ NodeKey(Top) \in DOMAIN ttable
  /\ ReturnValue(ttable[NodeKey(Top)])
  /\ UNCHANGED <<ttable, time_start, time_budget, process, aside, fen_in, locals, result, ret_path>>

(* lines 206-208 *)
NegamaxWin ==
  /\ Entered
  /\ NodeKey(Top) \notin DOMAIN ttable
  /\ WonHere(Top)
  /\ ttable' = TableStore(ttable, NodeKey(Top), WIN_SCORE)
  /\ ReturnValue(WIN_SCORE)
  /\ UNCHANGED <<time_start, time_budget, process, aside, fen_in, locals, result, ret_path>>

(* lines 209-211 *)
NegamaxLoss ==
  /\ Entered
  /\ NodeKey(Top) \notin DOMAIN ttable
  /\ ~WonHere(Top)
  /\ LostHere(Top)
  /\ ttable' = TableStore(ttable, NodeKey(Top), -WIN_SCORE)
  /\ ReturnValue(-WIN_SCORE)
  /\ UNCHANGED <<time_start, time_budget, process, aside, fen_in, locals, result, ret_path>>

Undecided(f) ==
  /\ NodeKey(f) \notin DOMAIN ttable
  /\ ~WonHere(f)
  /\ ~LostHere(f)

(* lines 213-220 *)
NegamaxLeaf ==
  /\ Entered
  /\ Undecided(Top)
  /\ Top.depth = 0 \/ NodeMoves(Top) = <<>>
  /\ LET val == evaluate(NodeFen(Top), DEFAULT_PARAMS) IN
       /\ ttable' = TableStore(ttable, NodeKey(Top), val)
       /\ ReturnValue(val)
  /\ UNCHANGED <<time_start, time_budget, process, aside, fen_in, locals, result, ret_path>>

Interior(f) == Undecided(f) /\ f.depth # 0 /\ NodeMoves(f) # <<>>

(* the probe is made at every depth above 0 *)
NegamaxNullProbe_AtAnyDepth ==
  /\ Entered
  /\ Interior(Top)
  /\ Top.depth > 0
  /\ LET f == Top
         null_rules == [board |-> f.rules.board, current_player |-> 3 - f.player]
     IN stack' = Pop \o <<[f EXCEPT !.stage = "null", !.key = NodeKey(f),
                                      !.moves = NodeMoves(f)],
                          Frame(null_rules, f.depth - 1 - NULL_MOVE_REDUCTION,
                                -f.beta, -f.alpha, f.player, f.stop_time)>>
  /\ pc' = "call"
  /\ UNCHANGED <<retval, ttable, time_start, time_budget, process, aside, fen_in, locals,
                 result, ret_path>>

(* lines 223-234: the null-move probe is called *)
NegamaxNullProbe ==
  /\ Entered
  /\ Interior(Top)
  /\ Top.depth > 2
  /\ LET f == Top
         null_rules == [board |-> f.rules.board, current_player |-> 3 - f.player]
     IN stack' = Pop \o <<[f EXCEPT !.stage = "null", !.key = NodeKey(f),
                                      !.moves = NodeMoves(f)],
                          Frame(null_rules, f.depth - 1 - NULL_MOVE_REDUCTION,
                                -f.beta, -f.alpha, f.player, f.stop_time)>>
  /\ pc' = "call"
  /\ UNCHANGED <<retval, ttable, time_start, time_budget, process, aside, fen_in, locals,
                 result, ret_path>>

(* lines 240-245: the move loop starts; the first child is called *)
StartLoop(f, key, moves) ==
  LET ordered == order_moves_fast(f.rules, moves)
      g == [f EXCEPT !.stage = "loop", !.key = key, !.moves = ordered, !.i = 1,
                     !.best = -INF]
  IN stack' = Pop \o <<g, Frame(ChildRules(f.rules, ordered[1], f.player), f.depth - 1,
                                -f.beta, -f.alpha, 3 - f.player, f.stop_time)>>

NegamaxExpand ==
  /\ Entered
  /\ Interior(Top)
  /\ Top.depth <= 2
  /\ StartLoop(Top, NodeKey(Top), NodeMoves(Top))
  /\ pc' = "call"
  /\ UNCHANGED <<retval, ttable, time_start, time_budget, process, aside, fen_in, locals,
                 result, ret_path>>

(***************************************************************************)
(* negamax: a callee returned (lines 226-252)                              *)
(***************************************************************************)
(* lines 226-237: the probe fails high *)
NullFailHigh ==
  /\ pc = "ret"
  /\ stack # <<>>
  /\ Top.stage = "null"
  /\ -retval >= Top.beta
  /\ ttable' = TableStore(ttable, Top.key, Top.beta)
  /\ ReturnValue(Top.beta)
  /\ UNCHANGED <<nodes_visited, time_start, time_budget, process, aside, now, fen_in, locals,
                 result, ret_path>>

(* lines 235, 240-245: the probe does not fail high *)
NullContinue ==
  /\ pc = "ret"
  /\ stack # <<>>
  /\ Top.stage = "null"
  /\ -retval < Top.beta
  /\ StartLoop(Top, Top.key, Top.moves)
  /\ pc' = "call"
  /\ UNCHANGED <<retval, globals, process, aside, now, fen_in, locals, result, ret_path>>

(* the lower bound is not raised by the children's scores *)
LoopScored_AlphaKept(f) ==
  LET score == -retval
      best == Max(f.best, score)
  IN [best |-> best, alpha |-> f.alpha]

(* lines 245-247 *)
LoopScored(f) ==
  LET score == -retval
      best == Max(f.best, score)
  IN [best |-> best, alpha |-> Max(f.alpha, best)]

(* the loop also stops after the first child that has a score *)
LoopEnds_AfterFirstScore(f) ==
  \/ LoopScored(f).best >= WIN_SCORE
  \/ LoopScored(f).alpha >= f.beta
  \/ LoopScored(f).best > -INF
  \/ f.i = Len(f.moves)

LoopEnds(f) ==
  \/ LoopScored(f).best >= WIN_SCORE
  \/ LoopScored(f).alpha >= f.beta
  \/ f.i = Len(f.moves)

(* lines 245-252: break or end of the move list; best is stored and returned *)
LoopReturn ==
  /\ pc = "ret"
  /\ stack # <<>>
  /\ Top.stage = "loop"
  /\ LoopEnds(Top)
  /\ ttable' = TableStore(ttable, Top.key, LoopScored(Top).best)
  /\ ReturnValue(LoopScored(Top).best)
  /\ UNCHANGED <<nodes_visited, time_start, time_budget, process, aside, now, fen_in, locals,
                 result, ret_path>>

(* lines 241-249: the next child is called *)
LoopNext ==
  /\ pc = "ret"
  /\ stack # <<>>
  /\ Top.stage = "loop"
  /\ ~LoopEnds(Top)
  /\ LET f == Top
         g == [f EXCEPT !.best = LoopScored(f).best, !.alpha = LoopScored(f).alpha,
                        !.i = f.i + 1]
     IN stack' = Pop \o <<g, Frame(ChildRules(f.rules, f.moves[f.i + 1], f.player),
                                   f.depth - 1, -g.beta, -g.alpha, 3 - f.player,
                                   f.stop_time)>>
  /\ pc' = "call"
  /\ UNCHANGED <<retval, globals, process, aside, now, fen_in, locals, result, ret_path>>

(***************************************************************************)
(* TimeoutError on its way to the handler (lines 195, 287-290)             *)
(***************************************************************************)
(* a frame that stores its running best on the way out (try/finally) *)
Unwind_StoresPartial ==
  /\ pc = "raise"
  /\ stack # <<>>
  /\ stack' = Pop
  /\ ttable' = IF Top.stage = "loop" THEN TableStore(ttable, Top.key, Top.best) ELSE ttable
  /\ UNCHANGED <<pc, retval, nodes_visited, time_start, time_budget, process, aside, now,
                 fen_in, locals, result, ret_path>>

(* the exception leaves one negamax frame *)
Unwind ==
  /\ pc = "raise"
  /\ stack # <<>>
  /\ stack' = Pop
  /\ UNCHANGED <<pc, retval, globals, process, aside, now, fen_in, locals, result, ret_path>>

(* lines 287-290: except TimeoutError: break; return best_mv *)
Handler ==
  /\ pc = "raise"
  /\ stack = <<>>
  /\ Return(best_mv, "timeout")
  /\ UNCHANGED <<stack, retval, globals, process, aside, now, fen_in, locals>>

Next ==
  \/ \E fen_str \in RootFens : ChooseQuickWin(fen_str)
  \/ \E fen_str \in RootFens : ChooseSearch(fen_str)
  \/ RootDescend
  \/ RootTimeout
  \/ RootScoreProven
  \/ RootScoreContinue
  \/ RootNextDepth
  \/ RootFinish
  \/ NegamaxTimeout
  \/ NegamaxTTHit
  \/ NegamaxWin
  \/ NegamaxLoss
  \/ NegamaxLeaf
  \/ NegamaxNullProbe
  \/ NegamaxExpand
  \/ NullFailHigh
  \/ NullContinue
  \/ LoopReturn
  \/ LoopNext
  \/ Unwind
  \/ Handler

Spec == Init /\ [][Next]_vars

(* one thread runs the search: a step that can be taken is taken *)
SpecLive == Spec /\ WF_vars(Next)

(***************************************************************************)
(* A caller that keeps the move of one finished call to compare it with    *)
(* the move of a later call (ML_mst4/apply_optimized_params.py)            *)
(***************************************************************************)
Finished == pc = "idle" /\ ret_path \in {"quick_win", "proven_win", "complete"}

Note ==
  /\ Finished
  /\ noted = <<>>
  /\ noted' = <<fen_in, result>>
  /\ UNCHANGED <<pc, stack, retval, globals, process, classifier, applied, now, fen_in,
                 locals, result, ret_path>>

NextNoting == Next \/ Note

SpecNoting == Init /\ [][NextNoting]_vars

(***************************************************************************)
(* The classifier on its own: detect_game_phase and allocate_time applied  *)
(* to position strings written by to_fen                                   *)
(***************************************************************************)
(* number of squares that may hold a tower in the classifier's inputs *)
NumSlots == 7

SlotSquare(i) == 5 * i + 1

RedHome == Bit(3, 0)

BlueHome == Bit(3, 6)

(* towers of height 1 on the chosen slots, guardians on their start squares *)
SlotBoard(fill, rg, bg) ==
  [red_guardian |-> IF rg THEN {RedHome} ELSE {},
   blue_guardian |-> IF bg THEN {BlueHome} ELSE {},
   red_towers |-> [h \in Heights |->
                     IF h = 1 THEN {SlotSquare(i) : i \in {j \in DOMAIN fill : fill[j] = 1}}
                     ELSE {}],
   blue_towers |-> [h \in Heights |->
                      IF h = 1 THEN {SlotSquare(i) : i \in {j \in DOMAIN fill : fill[j] = 2}}
                      ELSE {}]]

InitPhase ==
  /\ InitCommon
  /\ hash_seed = 1
  /\ max_depth = MAX_DEPTH
  /\ \E fill \in [1..NumSlots -> 0..2], rg \in BOOLEAN, bg \in BOOLEAN, player \in 1..2 :
       ph_fen = to_fen(SlotBoard(fill, rg, bg), player)
  /\ ph_phase = "none"
  /\ ph_budget = 0
  /\ Unapplied

Classify ==
  /\ ph_phase = "none"
  /\ ph_phase' = detect_game_phase(ph_fen)
  /\ ph_budget' = allocate_time(ph_fen)
  /\ UNCHANGED <<pc, stack, retval, globals, process, noted, applied, ph_fen, now, fen_in,
                 locals, result, ret_path>>

NextPhase == Classify

SpecPhase == InitPhase /\ [][NextPhase]_vars

(***************************************************************************)
(* The classifier over material counts: positions built from the number of *)
(* towers each side has in the top rows (1..2) and the bottom rows (4..5)  *)
(***************************************************************************)
(* most towers of one colour in one half of the classifier's inputs *)
MaxSide == 4

TopSquare(i) == 6 + i

BottomSquare(i) == 27 + i

CountBoard(red_top, blue_top, red_bottom, blue_bottom, rg, bg) ==
  [red_guardian |-> IF rg THEN {RedHome} ELSE {},
   blue_guardian |-> IF bg THEN {BlueHome} ELSE {},
   red_towers |-> [h \in Heights |->
                     IF h = 1
                     THEN {TopSquare(i) : i \in 1..red_top}
                          \cup {BottomSquare(i) : i \in 1..red_bottom}
                     ELSE {}],
   blue_towers |-> [h \in Heights |->
                      IF h = 1
                      THEN {TopSquare(red_top + i) : i \in 1..blue_top}
                           \cup {BottomSquare(red_bottom + i) : i \in 1..blue_bottom}
                      ELSE {}]]

(* the start position, red to move *)
StartFen ==
  <<"r", "1", "r", "1", "1", "R", "G", "1", "r", "1", "r", "1", "/", "2",
  "r", "1", "1", "r", "1", "2", "/", "3", "r", "1", "3", "/", "7", "/",
  "3", "b", "1", "3", "/", "2", "b", "1", "1", "b", "1", "2", "/", "b",
  "1", "b", "1", "1", "B", "G", "1", "b", "1", "b", "1", " ", "r">>

InitCounts ==
  /\ InitCommon
  /\ hash_seed = 1
  /\ max_depth = MAX_DEPTH
  /\ \E red_top \in 0..MaxSide, blue_top \in 0..MaxSide,
        red_bottom \in 0..MaxSide, blue_bottom \in 0..MaxSide,
        rg \in BOOLEAN, bg \in BOOLEAN, player \in 1..2 :
       \/ ph_fen = to_fen(CountBoard(red_top, blue_top, red_bottom, blue_bottom, rg, bg),
                          player)
       \/ ph_fen = to_fen(parse_fen(StartFen).board, player)
  /\ ph_phase = "none"
  /\ ph_budget = 0
  /\ Unapplied

SpecCounts == InitCounts /\ [][NextPhase]_vars

(***************************************************************************)
(* Functions applied on their own                                          *)
(***************************************************************************)
(* the search and the classifier at rest *)
AtRest ==
  /\ InitCommon
  /\ hash_seed = 1
  /\ max_depth = MAX_DEPTH
  /\ ph_fen = <<>>
  /\ ph_phase = "none"
  /\ ph_budget = 0
  /\ out = <<>>

Resting == <<pc, stack, retval, globals, process, noted, classifier, now, fen_in, locals,
             result, ret_path, arg>>

(* check_win_by_distance_or_capture on boards that hold up to one guardian *)
(* per side, anywhere on the board                                         *)
GuardianPlaces == {{}} \cup {{sq} : sq \in 0..(SIZE * SIZE - 1)}

InitWin ==
  /\ AtRest
  /\ \E rg \in GuardianPlaces, bg \in GuardianPlaces, player \in 1..2 :
       /\ rg \cap bg = {}
       /\ arg = [board |-> [EmptyBoard EXCEPT !.red_guardian = rg, !.blue_guardian = bg],
                 player |-> player]

CheckWin ==
  /\ out = <<>>
  /\ out' = <<[won |-> check_win_by_distance_or_capture(arg.board, arg.player),
               board |-> arg.board]>>
  /\ UNCHANGED Resting

NextWin == CheckWin

SpecWin == InitWin /\ [][NextWin]_vars

(***************************************************************************)
(* negamax called on its own: the same position searched for player 1 and  *)
(* then for player 2, each call from an empty table, with a wide window and *)
(* a deadline the clock never reaches                                       *)
(***************************************************************************)
(* deepest search of the paired calls *)
MaxPairDepth == 2

FarDeadline == MaxClock + TIME_BUFFER + 1

InitPair ==
  /\ InitCommon
  /\ hash_seed \in HashSeeds
  /\ max_depth = MAX_DEPTH
  /\ ph_fen = <<>>
  /\ ph_phase = "none"
  /\ ph_budget = 0
  /\ \E fen_str \in RootFens, d \in 0..MaxPairDepth :
       arg = [board |-> Prepared[fen_str].rules.board, depth |-> d]
  /\ out = <<>>

(* negamax(rules, depth, -inf, inf, player, stop_time) for the next player *)
CallNegamax ==
  /\ pc = "idle"
  /\ Len(out) < 2
  /\ LET player == Len(out) + 1 IN
       stack' = <<Frame([board |-> arg.board, current_player |-> player], arg.depth,
                        -INF, INF, player, FarDeadline)>>
  /\ ttable' = EmptyTable
  /\ nodes_visited' = 0
  /\ pc' = "call"
  /\ UNCHANGED <<retval, time_start, time_budget, process, aside, now, fen_in, locals,
                 result, ret_path>>

(* the outermost call returns its value to the caller *)
NegamaxReturned ==
  /\ pc = "ret"
  /\ stack = <<>>
  /\ out' = Append(out, retval)
  /\ pc' = "idle"
  /\ UNCHANGED <<stack, retval, globals, process, noted, classifier, arg, now, fen_in,
                 locals, result, ret_path>>

NextPair ==
  \/ CallNegamax
  \/ NegamaxReturned
  \/ NegamaxTTHit
  \/ NegamaxWin
  \/ NegamaxLoss
  \/ NegamaxLeaf
  \/ NegamaxExpand
  \/ LoopReturn
  \/ LoopNext

SpecPair == InitPair /\ [][NextPair]_vars

(***************************************************************************)
(* The same search with the truncated key and then with a collision-free   *)
(* key, under a depth ceiling that keeps every node at depth <= 2 (no      *)
(* null-move probe, line 223) and with the deadline never reached           *)
(***************************************************************************)
PruneFreeCap == 3

InitRekey ==
  /\ InitCommon
  /\ hash_seed \in HashSeeds
  /\ max_depth = PruneFreeCap
  /\ ph_fen = <<>>
  /\ ph_phase = "none"
  /\ ph_budget = 0
  /\ Unapplied

(* the caller notes the move chosen with the truncated key and replaces   *)
(* the hash by the collision-free one                                     *)
Rekey ==
  /\ Finished
  /\ noted = <<>>
  /\ hash_seed # FullKey
  /\ noted' = <<fen_in, result>>
  /\ hash_seed' = FullKey
  /\ UNCHANGED <<pc, stack, retval, globals, max_depth, classifier, applied, now, fen_in,
                 locals, result, ret_path>>

NextRekey ==
  \/ \E fen_str \in RootFens : ChooseQuickWin(fen_str)
  \/ \E fen_str \in RootFens : ChooseSearch(fen_str)
  \/ RootDescend
  \/ RootScoreProven
  \/ RootScoreContinue
  \/ RootNextDepth
  \/ RootFinish
  \/ NegamaxTTHit
  \/ NegamaxWin
  \/ NegamaxLoss
  \/ NegamaxLeaf
  \/ NegamaxExpand
  \/ LoopReturn
  \/ LoopNext
  \/ Rekey

SpecRekey == InitRekey /\ [][NextRekey]_vars

(***************************************************************************)
(* The search with the collision-free key from the start, under the same   *)
(* depth ceiling and with the deadline never reached                       *)
(***************************************************************************)
InitPlain ==
  /\ InitCommon
  /\ hash_seed = FullKey
  /\ max_depth = PruneFreeCap
  /\ ph_fen = <<>>
  /\ ph_phase = "none"
  /\ ph_budget = 0
  /\ Unapplied

NextPlain ==
  \/ \E fen_str \in PlainFens : ChooseQuickWin(fen_str)
  \/ \E fen_str \in PlainFens : ChooseSearch(fen_str)
  \/ RootDescend
  \/ RootScoreProven
  \/ RootScoreContinue
  \/ RootNextDepth
  \/ RootFinish
  \/ NegamaxTTHit
  \/ NegamaxWin
  \/ NegamaxLoss
  \/ NegamaxLeaf
  \/ NegamaxExpand
  \/ LoopReturn
  \/ LoopNext

SpecPlain == InitPlain /\ [][NextPlain]_vars

(***************************************************************************)
(* Move notation: format_move_description (alpha_beta_ki.py), describe_move *)
(* (core/fen.py) and the parsing in get_next_fen (demos/KI_vs_KI.py)        *)
(***************************************************************************)
Letters == <<"A", "B", "C", "D", "E", "F", "G">>

(* ord('A') *)
OrdA == 65

(* chr(n) and ord(c) on the column letters *)
ChrOf(n) == Letters[n - OrdA + 1]

OrdOf(c) == OrdA - 1 + (CHOOSE k \in DOMAIN Letters : Letters[k] = c)

(* str(n) for n >= 0, as an f-string writes it *)
RECURSIVE StrOf(_)
StrOf(n) == IF n < 10 THEN <<Digits[n + 1]>> ELSE StrOf(n \div 10) \o <<Digits[(n % 10) + 1]>>

(* int(s) for a string of decimal digits *)
RECURSIVE IntStr(_)
IntStr(s) ==
  IF s = <<>> THEN 0 ELSE 10 * IntStr(SubSeq(s, 1, Len(s) - 1)) + IntOf(s[Len(s)])

(* rows counted from the top: {7 - y} replaced by {y + 1} *)
coord_to_notation_FromTop(x, y) == <<ChrOf(OrdA + x)>> \o StrOf(y + 1)

(* alpha_beta_ki.py lines 376-377 *)
coord_to_notation(x, y) == <<ChrOf(OrdA + x)>> \o StrOf(7 - y)

(* alpha_beta_ki.py lines 369-383, for a move of three parts *)
format_move_description(best_move) ==
  coord_to_notation(best_move[1][1], best_move[1][2]) \o <<"-">>
  \o coord_to_notation(best_move[2][1], best_move[2][2]) \o <<"-">>
  \o StrOf(best_move[3])

(* core/fen.py lines 77-96 *)
describe_move(from_pos, to_pos, height) ==
  LET from_col == ChrOf(from_pos[1] + OrdA)
      from_row == 7 - from_pos[2]
      to_col == ChrOf(to_pos[1] + OrdA)
      to_row == 7 - to_pos[2]
  IN <<from_col>> \o StrOf(from_row) \o <<"-">> \o <<to_col>> \o StrOf(to_row)
     \o <<"-">> \o StrOf(height)

(* demos/KI_vs_KI.py lines 74-88: the move get_next_fen hands to make_move; *)
(* NoMove where it returns None                                             *)
ParsedMove(move) ==
  LET parts == SplitOn(move, "-") IN
  IF Len(parts) # 3 THEN NoMove
  ELSE LET from_str == parts[1]
           to_str == parts[2]
           height_str == parts[3]
           fx == OrdOf(from_str[1]) - OrdA
           fy == 7 - IntOf(from_str[2])
           tx == OrdOf(to_str[1]) - OrdA
           ty == 7 - IntOf(to_str[2])
       IN IF height_str = <<>> \/ \E i \in DOMAIN height_str : ~IsDigit(height_str[i])
          THEN NoMove
          ELSE <<<<fx, fy>>, <<tx, ty>>, IntStr(height_str)>>

InitMove ==
  /\ AtRest
  /\ \E x1 \in 0..(SIZE - 1), y1 \in 0..(SIZE - 1), x2 \in 0..(SIZE - 1),
        y2 \in 0..(SIZE - 1), h \in Heights :
       arg = <<<<x1, y1>>, <<x2, y2>>, h>>

(* the move is written by both formatters *)
DescribeMove ==
  /\ out = <<>>
  /\ out' = <<[ki |-> format_move_description(arg),
               parser |-> describe_move(arg[1], arg[2], arg[3])]>>
  /\ UNCHANGED Resting

(* the text is read back the way get_next_fen reads it *)
ReadMove ==
  /\ Len(out) = 1
  /\ out' = Append(out, ParsedMove(out[1].ki))
  /\ UNCHANGED Resting

NextMove == DescribeMove \/ ReadMove

SpecMove == InitMove /\ [][NextMove]_vars

(***************************************************************************)
(* parse_fen applied to position strings as a caller may pass them: the    *)
(* first two rows drawn from well and badly formed row texts, 6 to 8 rows, *)
(* and a side tag that may be wrong or missing                             *)
(***************************************************************************)
RowTexts ==
  {<<"7">>, <<"3", "R", "G", "3">>, <<"3", "B", "G", "3">>, <<"r", "1", "6">>,
   <<"x", "6">>, <<"r", "9", "6">>, <<"b", "0", "6">>, <<"8">>, <<"6">>,
   <<"r", "1", "7">>}

RowCounts == {SIZE - 1, SIZE, SIZE + 1}

SideTags == {<<" ", "r">>, <<" ", "b">>, <<" ", "x">>, <<>>}

FenText(first, second, count, tag) ==
  first \o <<"/">> \o second
  \o Concat([k \in 1..(count - 2) |-> <<"/", "7">>]) \o tag

InitParse ==
  /\ AtRest
  /\ \E first \in RowTexts, second \in RowTexts, count \in RowCounts, tag \in SideTags :
       arg = FenText(first, second, count, tag)

(* choose_best_move lines 295-296: the string is parsed; parts[1] raises *)
(* IndexError where the string has one field only                       *)
ParseFen ==
  /\ out = <<>>
  /\ out' = IF Len(SplitBlank(arg)) < 2
            THEN <<[raised |-> TRUE, board |-> EmptyBoard, player |-> NoOwner]>>
            ELSE <<[raised |-> FALSE, board |-> parse_fen(arg).board,
                    player |-> parse_fen(arg).player]>>
  /\ UNCHANGED Resting

NextParse == ParseFen

SpecParse == InitParse /\ [][NextParse]_vars

(***************************************************************************)
(* evaluate applied to packed boards under DEFAULT_PARAMS and the corners  *)
(* of the optimizer's param_ranges (ML_mst4/parameter_optimizer.py)        *)
(***************************************************************************)
param_ranges ==
  [material_weight |-> <<5, 80>>, guardian_advance |-> <<10, 200>>,
   guardian_safety |-> <<20, 300>>, center_control |-> <<5, 100>>,
   tower_height |-> <<1, 60>>, aggression |-> <<5, 120>>, mobility |-> <<1, 50>>,
   positioning |-> <<5, 80>>, tempo |-> <<1, 60>>, win_bonus |-> <<8000, 12000>>]

(* the terms evaluate subtracts *)
PenaltyNames == {"guardian_advance", "guardian_safety"}

(* the smallest and the largest of every range, and the two corners that  *)
(* push the gains and the penalties apart                                 *)
ParamCorners ==
  {DEFAULT_PARAMS,
   [n \in DOMAIN param_ranges |-> param_ranges[n][1]],
   [n \in DOMAIN param_ranges |-> param_ranges[n][2]],
   [n \in DOMAIN param_ranges |-> param_ranges[n][IF n \in PenaltyNames THEN 1 ELSE 2]],
   [n \in DOMAIN param_ranges |-> param_ranges[n][IF n \in PenaltyNames THEN 2 ELSE 1]]}

(* where the guardians stand: start squares, mid-board, one side captured *)
GuardianSetups ==
  {<<{Bit(3, 0)}, {Bit(3, 6)}>>, <<{Bit(3, 3)}, {Bit(2, 2)}>>,
   <<{}, {Bit(3, 6)}>>, <<{Bit(3, 0)}, {}>>}

PackedHeights == {1, 3, 7}

(* red towers of height hr on the first n squares without a guardian, blue *)
(* towers of height hb (none if hb = 0) on the other such squares          *)
PackedBoard(n, hr, hb, guardians) ==
  LET free == {sq \in 0..(SIZE * SIZE - 1) : sq \notin guardians[1] \cup guardians[2]}
      red == {sq \in free : Cardinality({o \in free : o < sq}) < n}
  IN [red_guardian |-> guardians[1],
      blue_guardian |-> guardians[2],
      red_towers |-> [h \in Heights |-> IF h = hr THEN red ELSE {}],
      blue_towers |-> [h \in Heights |-> IF h = hb THEN free \ red ELSE {}]]

InitEval ==
  /\ AtRest
  /\ \E rows \in 0..SIZE, hr \in PackedHeights, hb \in PackedHeights \cup {0},
        guardians \in GuardianSetups, player \in 1..2, params \in ParamCorners :
       arg = [fen |-> to_fen(PackedBoard(SIZE * rows, hr, hb, guardians), player),
              params |-> params]

Evaluate ==
  /\ out = <<>>
  /\ out' = <<evaluate(arg.fen, arg.params)>>
  /\ UNCHANGED Resting

NextEval == Evaluate

SpecEval == InitEval /\ [][NextEval]_vars

(***************************************************************************)
(* Searches to the module's depth ceiling with ample time, on roots where  *)
(* either side has towers: every node that orders moves is reached, the    *)
(* nodes inside null-move probes included                                  *)
(***************************************************************************)
(* the depth ceiling a benchmark run assigns to the module global *)
BenchDepth == 5

InitOrder ==
  /\ InitCommon
  /\ hash_seed \in HashSeeds
  /\ max_depth = BenchDepth
  /\ ph_fen = <<>>
  /\ ph_phase = "none"
  /\ ph_budget = 0
  /\ Unapplied

NextOrder ==
  \/ \E fen_str \in ProbeFens : ChooseSearch(fen_str)
  \/ RootDescend
  \/ RootScoreProven
  \/ RootScoreContinue
  \/ RootNextDepth
  \/ RootFinish
  \/ NegamaxTTHit
  \/ NegamaxWin
  \/ NegamaxLoss
  \/ NegamaxLeaf
  \/ NegamaxNullProbe
  \/ NegamaxExpand
  \/ NullFailHigh
  \/ NullContinue
  \/ LoopReturn
  \/ LoopNext

SpecOrder == InitOrder /\ [][NextOrder]_vars

(***************************************************************************)
(* negamax called at depth 0 on a position and then on the same position   *)
(* without one unit of the side that is not to move, each call from an     *)
(* empty table and with a deadline the clock never reaches                 *)
(***************************************************************************)
LeafSquares == {Bit(1, 1), Bit(5, 2), Bit(4, 3), Bit(2, 5)}

LeafHeights == {1, 3}

LeafGuardians == {<<{Bit(3, 0)}, {Bit(3, 6)}>>, <<{Bit(3, 3)}, {Bit(2, 2)}>>}

(* towers of one height on the chosen squares *)
LeafBoard(guardians, red, blue, h) ==
  [red_guardian |-> guardians[1],
   blue_guardian |-> guardians[2],
   red_towers |-> [k \in Heights |-> IF k = h THEN red ELSE {}],
   blue_towers |-> [k \in Heights |-> IF k = h THEN blue ELSE {}]]

InitLeaf ==
  /\ InitCommon
  /\ hash_seed \in HashSeeds
  /\ max_depth = MAX_DEPTH
  /\ ph_fen = <<>>
  /\ ph_phase = "none"
  /\ ph_budget = 0
  /\ \E guardians \in LeafGuardians, red \in SUBSET LeafSquares, blue \in SUBSET LeafSquares,
        h \in LeafHeights, player \in 1..2 :
       /\ red \cap blue = {}
       /\ \E gone \in (IF player = 1 THEN blue ELSE red) :
            arg = [board |-> LeafBoard(guardians, red, blue, h),
                   better |-> ClearSquare(LeafBoard(guardians, red, blue, h), gone),
                   player |-> player]
  /\ out = <<>>

(* negamax(rules, 0, -inf, inf, player, stop_time) on the next position *)
CallLeaf ==
  /\ pc = "idle"
  /\ Len(out) < 2
  /\ LET board == IF out = <<>> THEN arg.board ELSE arg.better IN
       stack' = <<Frame([board |-> board, current_player |-> arg.player], 0,
                        -INF, INF, arg.player, FarDeadline)>>
  /\ ttable' = EmptyTable
  /\ nodes_visited' = 0
  /\ pc' = "call"
  /\ UNCHANGED <<retval, time_start, time_budget, process, aside, now, fen_in, locals,
                 result, ret_path>>

NextLeaf ==
  \/ CallLeaf
  \/ NegamaxLeaf
  \/ NegamaxReturned

SpecLeaf == InitLeaf /\ [][NextLeaf]_vars

(***************************************************************************)
(* TournamentRunner.play_game (ML_mst4/tournament_runner.py lines 24-94):  *)
(* arg holds the runner's ply cap and the game's current_fen and           *)
(* move_count, out the value returned                                      *)
(***************************************************************************)
(* largest ply cap of a runner *)
MaxPlies == 3

GameFens == {FenDuel, FenWinThird, FenWinFourth, FenWinLate, FenOver, FenNoMoves, FenSkirmish}

InitGame ==
  /\ AtRest
  /\ \E fen_str \in GameFens, max_moves \in 1..MaxPlies :
       arg = [current_fen |-> fen_str, move_count |-> 0, max_moves |-> max_moves]

(* line 46 *)
GameOn == out = <<>> /\ arg.move_count < arg.max_moves

GameWinner ==
  IF check_win_by_distance_or_capture(parse_fen(arg.current_fen).board, 1) THEN 1
  ELSE IF check_win_by_distance_or_capture(parse_fen(arg.current_fen).board, 2) THEN 2
  ELSE 0

(* lines 60-74: the move of choose_best_move, which is its quick win when   *)
(* there is one and else a legal move of the search; or, when the call took *)
(* longer than move_timeout or returned no move, one of the first five      *)
(* legal moves                                                              *)
GameMoves ==
  LET rules == RulesOf(arg.current_fen)
      legal_moves == get_legal_moves(rules.board, rules.current_player)
      quick == QuickWin(rules, OrderedRootMoves(rules))
  IN (IF quick # NoMove THEN {quick} ELSE Range(legal_moves))
     \cup {legal_moves[i] : i \in 1..Min(5, Len(legal_moves))}

(* lines 47-54: a side has won the current position *)
PlayWon ==
  /\ GameOn
  /\ GameWinner # 0
  /\ out' = <<GameWinner>>
  /\ UNCHANGED Resting

(* lines 56-87: a move is chosen and made, the other side is to move; with *)
(* both guardians on the board the side to move has a legal move, so the   *)
(* return of lines 75-77 is not taken                                      *)
PlayMove ==
  /\ GameOn
  /\ GameWinner = 0
  /\ \E mv \in GameMoves :
       arg' = [arg EXCEPT
                 !.current_fen = to_fen(make_move(parse_fen(arg.current_fen).board, mv),
                                        3 - parse_fen(arg.current_fen).player),
                 !.move_count = arg.move_count + 1]
  /\ UNCHANGED <<out, pc, stack, retval, globals, process, noted, classifier, now, fen_in,
                 locals, result, ret_path>>

(* lines 93-94: the ply cap is reached *)
PlayDraw ==
  /\ out = <<>>
  /\ arg.move_count >= arg.max_moves
  /\ out' = <<0>>
  /\ UNCHANGED Resting

NextGame ==
  \/ PlayWon
  \/ PlayMove
  \/ PlayDraw

SpecGame == InitGame /\ [][NextGame]_vars

(***************************************************************************)
(* Properties                                                              *)
(***************************************************************************)
RootBoard(fen_str) == Prepared[fen_str].rules.board

RootPlayer(fen_str) == Prepared[fen_str].rules.current_player

(* the legal moves of the root position of each input *)
LegalAtRoot ==
  [fen_str \in RootFens |->
     Range(get_legal_moves(RootBoard(fen_str), RootPlayer(fen_str)))]

(* the legal root moves after which the mover has won *)
WinningAtRoot ==
  [fen_str \in RootFens |->
     {mv \in LegalAtRoot[fen_str] :
        check_win_by_distance_or_capture(make_move(RootBoard(fen_str), mv),
                                         RootPlayer(fen_str))}]

(* units on the board, by side *)
UnitsOf(board, player) ==
  Cardinality(guardian_of(board, player)) + Cardinality(TowerBits(board, player))

(* C1: when the deadline ends the search during depth d >= 2, the move *)
(* returned is the best move of the last completed depth d - 1.        *)
C1_TimeoutKeepsCompletedDepth ==
  (pc = "idle" /\ ret_path = "timeout" /\ depth >= 2) => result = completed_mv

(* C2: with ample time (no deadline hit), whenever some legal root move wins *)
(* at once for the mover, choose_best_move returns such a move.              *)
C2_ImmediateWinReturned ==
  (Finished /\ max_depth = MAX_DEPTH /\ WinningAtRoot[fen_in] # {}) =>
     result \in WinningAtRoot[fen_in]

(* C3: every move returned by choose_best_move, on whichever return path, is *)
(* a legal move of the root position for its side to move.                   *)
C3_ReturnedMoveLegal ==
  (pc = "idle" /\ ret_path # "none" /\ result # NoMove) => result \in LegalAtRoot[fen_in]

C3_Witness ==
  /\ pc = "idle"
  /\ ret_path = "timeout"
  /\ depth >= 2
  /\ result # NoMove
  /\ result \in LegalAtRoot[fen_in]

(* C4: while a TimeoutError travels from the raising negamax frame to the *)
(* handler, ttable and nodes_visited keep their values and no enclosing   *)
(* frame changes: each step only drops the innermost frame.               *)
C4_UnwindTouchesNothing ==
  [][pc = "raise" =>
       /\ ttable' = ttable
       /\ nodes_visited' = nodes_visited
       /\ stack # <<>> => stack' = Pop
       /\ best_mv' = best_mv /\ alpha' = alpha /\ local_best' = local_best]_vars

C4_Witness ==
  /\ pc = "raise"
  /\ Len(stack) = 1
  /\ stack[1].stage = "loop"
  /\ stack[1].best > -INF
  /\ ttable # EmptyTable

(* C5: when choose_best_move returns from the quick win check, the table is *)
(* empty and the counter is 0: nothing of an earlier call is left.          *)
C5_QuickWinLeavesCleanGlobals ==
  (pc = "idle" /\ ret_path = "quick_win") => (ttable = EmptyTable /\ nodes_visited = 0)

(* C6: a call that ends without a deadline hit returns the move an earlier  *)
(* such call on the same position returned, whatever ran in between; and a  *)
(* root move whose score only equals the best so far does not replace it.   *)
C6_SameMoveAgain ==
  (Finished /\ noted # <<>> /\ noted[1] = fen_in) => result = noted[2]

C6_FirstOfEqualsKept ==
  (pc = "ret" /\ stack = <<>> /\ -retval <= local_best) => best_mv' = best_mv

C6_Deterministic == [](C6_SameMoveAgain) /\ [][C6_FirstOfEqualsKept]_vars

C6_Witness ==
  /\ Finished
  /\ ret_path = "complete"
  /\ noted # <<>>
  /\ noted[1] = fen_in
  /\ result = noted[2]
  /\ root_moves # <<>>
  /\ nodes_visited > Len(root_moves)
  /\ result # root_moves[1]

(* C7: a root without legal moves makes choose_best_move return None from   *)
(* the normal end of the driver: no negamax frame, no node counted, nothing *)
(* stored, no TimeoutError.                                                 *)
C7_NoMovesReturnsNone ==
  (fen_in \in RootFens /\ LegalAtRoot[fen_in] = {} /\ ret_path # "none") =>
     /\ pc \in {"root", "idle"}
     /\ stack = <<>>
     /\ nodes_visited = 0
     /\ ttable = EmptyTable
     /\ pc = "idle" => (result = NoMove /\ ret_path = "complete")

C7_Witness ==
  /\ pc = "idle"
  /\ fen_in = FenNoMoves
  /\ ret_path = "complete"
  /\ result = NoMove
  /\ max_depth = MAX_DEPTH
  /\ depth = MAX_DEPTH
  /\ nodes_visited = 0

(* C8: the driver's depth stays within 1..MAX_DEPTH and only ever grows by  *)
(* one within a call; every negamax frame has a depth in 0..MAX_DEPTH - 1.  *)
C8_DepthInRange ==
  /\ pc # "idle" => depth \in 1..max_depth
  /\ \A i \in DOMAIN stack : stack[i].depth \in 0..(max_depth - 1)

C8_DepthStep ==
  \/ depth' = depth
  \/ depth' = depth + 1 /\ pc = "root" /\ mv_idx > Len(root_moves)
  \/ depth' = 1 /\ pc = "idle"

C8_CeilingKept == [](C8_DepthInRange) /\ [][C8_DepthStep]_vars

C8_Witness ==
  /\ pc = "idle"
  /\ ret_path = "complete"
  /\ max_depth = MAX_DEPTH
  /\ depth = MAX_DEPTH
  /\ root_moves # <<>>
  /\ now < stop_time - TIME_BUFFER

(* C9 as stated: with ceiling 1, no deadline hit and no winning root move,  *)
(* a legal move is returned and nodes_visited is the number of root moves.  *)
C9_CeilingOneCountsRootMoves ==
  (pc = "idle" /\ max_depth = 1 /\ ret_path = "complete" /\ WinningAtRoot[fen_in] = {}) =>
     /\ result \in LegalAtRoot[fen_in]
     /\ nodes_visited = Len(root_moves)

(* C9 amended: the same for roots that have at least one legal move. *)
C9_CeilingOneCountsRootMovesIfAny ==
  (/\ pc = "idle" /\ max_depth = 1 /\ ret_path = "complete"
   /\ WinningAtRoot[fen_in] = {} /\ LegalAtRoot[fen_in] # {}) =>
     /\ result \in LegalAtRoot[fen_in]
     /\ nodes_visited = Len(root_moves)
     /\ nodes_visited = Cardinality(LegalAtRoot[fen_in])

C9_Witness ==
  /\ pc = "idle"
  /\ max_depth = 1
  /\ ret_path = "complete"
  /\ fen_in = FenTowers
  /\ nodes_visited = Len(root_moves)
  /\ nodes_visited > 3
  /\ result \in LegalAtRoot[fen_in]

(* material of the classified position, as it stands on the board *)
PhMover == parse_fen(ph_fen).player

PhMine == UnitsOf(parse_fen(ph_fen).board, PhMover)

PhTheirs == UnitsOf(parse_fen(ph_fen).board, 3 - PhMover)

PhScenarioD == ph_phase # "none" /\ PhMine + PhTheirs = 9 /\ PhMine - PhTheirs <= -3

(* C10 as stated: total material 9 and differential <= -3 give the phase   *)
(* 'midgame_critical' and a budget of 0.5 s (10 ticks).                    *)
C10_ScenarioDMidgameCritical ==
  PhScenarioD => (ph_phase = "midgame_critical" /\ ph_budget = 10)

(* C10 amended: the phase is 'midgame_critical' or 'critical' and the      *)
(* budget is 0.5 s (10 ticks) in both cases.                               *)
C10_ScenarioDHalfSecond ==
  PhScenarioD => (ph_phase \in {"midgame_critical", "critical"} /\ ph_budget = 10)

C10_Witness ==
  /\ PhScenarioD
  /\ ph_phase = "midgame_critical"
  /\ ph_budget = 10

(* the classification rule over the three counts, and the budget table *)
RuleBase(total) ==
  IF total >= 12 THEN "opening" ELSE IF total >= 7 THEN "midgame" ELSE "endgame"

RuleCriticality(mine, theirs, invaded) ==
  (IF mine - theirs <= -3 THEN 2 ELSE IF mine - theirs <= -1 THEN 1 ELSE 0)
  + (IF invaded >= 3 THEN 2 ELSE IF invaded >= 1 THEN 1 ELSE 0)
  + (IF mine <= 2 \/ theirs <= 2 THEN 3 ELSE 0)

RulePhase(mine, theirs, invaded) ==
  LET base == RuleBase(mine + theirs)
      crit == RuleCriticality(mine, theirs, invaded)
  IN IF crit >= 3 THEN <<"critical">>
     ELSE IF crit >= 1 /\ base # "endgame" THEN <<base, "_critical">>
     ELSE <<base>>

(* the budget table in seconds * 20, by phase name written in its parts *)
RuleBudget(phase) ==
  CASE phase = <<"opening">> -> 4
    [] phase = <<"midgame">> -> 6
    [] phase = <<"opening", "_critical">> -> 8
    [] phase = <<"midgame", "_critical">> -> 10
    [] phase = <<"critical">> -> 10
    [] phase = <<"endgame">> -> 4
    [] phase = <<"endgame", "_critical">> -> 4
    [] OTHER -> 4

PhaseParts(phase) ==
  CASE phase = "opening_critical" -> <<"opening", "_critical">>
    [] phase = "midgame_critical" -> <<"midgame", "_critical">>
    [] phase = "endgame_critical" -> <<"endgame", "_critical">>
    [] OTHER -> <<phase>>

(* C11: for the mover count, enemy count and invasion count of every        *)
(* classified position, the phase is the one the rule gives (base from the  *)
(* total, 'critical' at criticality >= 3, base + '_critical' at criticality *)
(* >= 1 outside the endgame) and the budget is the table's for that phase.  *)
C11_BudgetFollowsRule ==
  ph_phase # "none" =>
    LET mine == count_my_pieces(ph_fen)
        theirs == count_enemy_pieces(ph_fen)
        invaded == count_enemy_pieces_in_half(ph_fen)
    IN /\ PhaseParts(ph_phase) = RulePhase(mine, theirs, invaded)
       /\ ph_budget = RuleBudget(RulePhase(mine, theirs, invaded))

C11_Witness ==
  /\ ph_phase = "opening_critical"
  /\ ph_budget = 8
  /\ count_my_pieces(ph_fen) + count_enemy_pieces(ph_fen) >= 12
  /\ count_enemy_pieces_in_half(ph_fen) \in 1..2

C13_ZeroSumSymmetry ==
  (pc = "idle" /\ Len(out) = 2) => out[1] = -out[2]

(* the paths of at most n plies from a position, each with the board it *)
(* ends on; a path ends early where one side has won                    *)
RECURSIVE Reach(_, _, _)
Reach(board, player, n) ==
  IF \/ n = 0
     \/ check_win_by_distance_or_capture(board, player)
     \/ check_win_by_distance_or_capture(board, 3 - player)
  THEN {<<<<>>, board>>}
  ELSE UNION {{<<<<mv>> \o r[1], r[2]>> : r \in Reach(make_move(board, mv), 3 - player, n - 1)} :
                mv \in Range(get_legal_moves(board, player))}

(* the roots whose tree reaches one position by two move orders *)
Transposing ==
  [fen_str \in RootFens |->
     LET ends == Reach(RootBoard(fen_str), RootPlayer(fen_str), PruneFreeCap)
     IN \E a \in ends, b \in ends :
          a[1] # b[1] /\ Len(a[1]) = Len(b[1]) /\ a[2] = b[2]]

(* C14: without null-move probes and with ample time, on a root whose tree *)
(* transposes, the move chosen with the key (hash(fen) % 10000, depth) is  *)
(* the move chosen with a collision-free key.                              *)
C14_HashWidthIndependent ==
  (Finished /\ noted # <<>> /\ noted[1] = fen_in /\ hash_seed = FullKey /\ Transposing[fen_in])
     => result = noted[2]

(* C15: for coordinates in 0..6 and a height in 1..7, format_move_description *)
(* and describe_move both write column letter, row 7 - y, '-', the same for   *)
(* the destination, '-', the height; read back as get_next_fen reads it, the  *)
(* text gives the move again.                                                 *)
C15_MoveTextRoundTrip ==
  /\ Len(out) >= 1 =>
       /\ out[1].ki = <<Letters[arg[1][1] + 1], Digits[7 - arg[1][2] + 1], "-",
                        Letters[arg[2][1] + 1], Digits[7 - arg[2][2] + 1], "-",
                        Digits[arg[3] + 1]>>
       /\ out[1].parser = out[1].ki
  /\ Len(out) = 2 => out[2] = arg

C15_Witness ==
  /\ Len(out) = 2
  /\ out[1].ki = <<"A", "7", "-", "G", "1", "-", "7">>
  /\ out[2] = <<<<0, 0>>, <<6, 6>>, 7>>

(* the width a row text describes; -1 where it holds an unknown character *)
(* or a tower height outside 1..7                                         *)
RECURSIVE RowWidth(_)
RowWidth(row) ==
  IF row = <<>> THEN 0
  ELSE LET two == IF Len(row) >= 2 THEN SubSeq(row, 1, 2) ELSE <<>>
           rest(n) == RowWidth(SubSeq(row, n + 1, Len(row)))
       IN IF two \in {<<"R", "G">>, <<"B", "G">>}
          THEN (IF rest(2) < 0 THEN -1 ELSE 1 + rest(2))
          ELSE IF row[1] \in {"r", "b"}
          THEN (IF two # <<>> /\ IsDigit(row[2]) /\ IntOf(row[2]) \in Heights /\ rest(2) >= 0
                THEN 1 + rest(2) ELSE -1)
          ELSE IF IsDigit(row[1]) /\ IntOf(row[1]) >= 1
          THEN (IF rest(1) < 0 THEN -1 ELSE IntOf(row[1]) + rest(1))
          ELSE -1

WellFormed(fen_str) ==
  LET parts == SplitBlank(fen_str)
      rows == SplitOn(parts[1], "/")
  IN /\ Len(parts) = 2
     /\ parts[2] \in {<<"r">>, <<"b">>}
     /\ Len(rows) = SIZE
     /\ \A k \in DOMAIN rows : RowWidth(rows[k]) = SIZE

(* C16: a position string that is not well formed (unknown character, tower *)
(* height outside 1..7, row count or row width other than 7, side tag other *)
(* than 'r' or 'b') is rejected with an error when it is parsed.            *)
C16_MalformedRejected ==
  (out # <<>> /\ ~WellFormed(arg)) => out[1].raised

(* C17: under DEFAULT_PARAMS and every parameter set of param_ranges, the *)
(* absolute value of evaluate is below WIN_SCORE on every position.       *)
C17_EvalBelowWinScore ==
  out # <<>> => Abs(out[1]) < WIN_SCORE

C17_Witness ==
  /\ out # <<>>
  /\ Abs(out[1]) > 2 * arg.params.win_bonus
  /\ Abs(out[1]) < WIN_SCORE

(* C18: within a search there is one deadline, time_start + time_budget,   *)
(* held by the driver and by every negamax frame and never changed; once a *)
(* clock read has reached deadline - TIME_BUFFER the search is raising: no *)
(* node is counted, no frame is added, and the driver returns.             *)
C18_OneDeadline ==
  pc # "idle" =>
    /\ stop_time = time_start + time_budget
    /\ \A i \in DOMAIN stack : stack[i].stop_time = stop_time

C18_DeadlineReached ==
  (pc # "idle" /\ now >= stop_time - TIME_BUFFER) => pc = "raise"

C18_DeadlineKept ==
  /\ pc # "idle" => stop_time' = stop_time
  /\ pc = "raise" => /\ nodes_visited' = nodes_visited
                     /\ Len(stack') <= Len(stack)
                     /\ pc' \in {"raise", "idle"}

C18_DriverReturns ==
  (pc # "idle" /\ now >= stop_time - TIME_BUFFER) ~> (pc = "idle" /\ ret_path = "timeout")

C18_DeadlineFixedAndObeyed ==
  /\ [](C18_OneDeadline /\ C18_DeadlineReached)
  /\ [][C18_DeadlineKept]_vars
  /\ C18_DriverReturns

C18_Witness ==
  /\ pc = "raise"
  /\ Len(stack) >= 2
  /\ now >= stop_time - TIME_BUFFER
  /\ stack[Len(stack)].stop_time = time_start + time_budget
  /\ nodes_visited > 0

(* a step in which a node calls its null-move probe *)
ProbeCalled ==
  /\ pc = "call"
  /\ Len(stack') = Len(stack) + 1
  /\ stack'[Len(stack)].stage = "null"

(* C19: at a node with depth > 2 the null-move probe searches the node's    *)
(* position, no move applied, with the opponent of the node's player as     *)
(* side to move, at depth - 1 - NULL_MOVE_REDUCTION; the node returns beta  *)
(* without a real move exactly when the negated probe result is >= beta.    *)
C19_ProbeFlipsSide ==
  ProbeCalled =>
    LET node == stack[Len(stack)]
        probe == stack'[Len(stack')]
    IN /\ node.depth > 2
       /\ probe.rules.board = node.rules.board
       /\ probe.depth = node.depth - 1 - NULL_MOVE_REDUCTION
       /\ probe.player = 3 - node.player

C19_FailHighReturnsBeta ==
  (pc = "ret" /\ stack # <<>> /\ Top.stage = "null") =>
     ((-retval >= Top.beta) <=> (stack' = Pop /\ retval' = Top.beta /\ pc' = "ret"))

C19_NullMoveProbe == [][C19_ProbeFlipsSide /\ C19_FailHighReturnsBeta]_vars

(* a move list in three blocks for the player the moves belong to: moves of *)
(* the guardian, moves onto a square the other player owns, all others      *)
InBlocks(board, player, moves) ==
  LET ofGuardian(mv) == get_top_piece_type(board, mv[1][1], mv[1][2]) = "WAECHTER"
      ontoOpponent(mv) == get_stack_owner(board, mv[2][1], mv[2][2]) = 3 - player
  IN SelectSeq(moves, LAMBDA mv : ofGuardian(mv))
     \o SelectSeq(moves, LAMBDA mv : ~ofGuardian(mv) /\ ontoOpponent(mv))
     \o SelectSeq(moves, LAMBDA mv : ~ofGuardian(mv) /\ ~ontoOpponent(mv))

(* C20: at every node where moves are ordered, inside null-move probes too, *)
(* the ordered list is the generated list of the node's player in three     *)
(* blocks (guardian moves, moves onto a square of that player's opponent,   *)
(* the rest), each block in its generated order.                            *)
C20_OrderedInThreeBlocks ==
  /\ pc \in {"root", "call", "ret"} =>
       root_moves = InBlocks(root_rules.board, root_rules.current_player,
                             get_legal_moves(root_rules.board, root_rules.current_player))
  /\ \A i \in DOMAIN stack :
       stack[i].stage = "loop" =>
         stack[i].moves = InBlocks(stack[i].rules.board, stack[i].player,
                                   get_legal_moves(stack[i].rules.board, stack[i].player))

(* the key negamax works with in the current step: computed at the entry of *)
(* a call, kept by the frame while its callees run                          *)
StepKey == IF pc = "call" THEN NodeKey(Top) ELSE Top.key

(* the key of the call at the top: hash of the serialization, remaining depth *)
CallKey == <<NodeKey(Top)[1], Top.depth>>

(* a call whose key is in the table returns the stored score and changes *)
(* neither the table nor any frame below it                              *)
C21_HitReturnsStored ==
  (pc = "call" /\ pc' # "raise" /\ CallKey \in DOMAIN ttable) =>
    /\ pc' = "ret"
    /\ retval' = ttable[CallKey]
    /\ stack' = Pop
    /\ ttable' = ttable

(* an entry stored for another remaining depth is not a hit: the call goes *)
(* on to the win tests, the evaluator or the move loop                     *)
C21_OtherDepthNotReused ==
  (pc = "call" /\ pc' # "raise" /\ CallKey \notin DOMAIN ttable) =>
    \/ pc' = "call" /\ Len(stack') = Len(stack) + 1
    \/ pc' = "ret" /\ CallKey \in DOMAIN ttable' /\ retval' = ttable'[CallKey]

(* a store puts the score at the key, whatever was there, and leaves every *)
(* other entry as it was                                                   *)
C21_StoreReplaces ==
  (pc \in {"call", "ret"} /\ stack # <<>> /\ ttable' # ttable) =>
    /\ DOMAIN ttable' = DOMAIN ttable \cup {StepKey}
    /\ ttable'[StepKey] = retval'
    /\ \A k \in DOMAIN ttable : k # StepKey => ttable'[k] = ttable[k]

(* C21: a negamax call whose key (truncated hash of the serialization with  *)
(* the side to move, remaining depth) is in ttable returns the stored score *)
(* without a win test, move generation or evaluation; an entry is reused    *)
(* only for the same remaining depth; a store replaces what the key held.   *)
C21_TableLookupAndStore ==
  [][C21_HitReturnsStored /\ C21_OtherDepthNotReused /\ C21_StoreReplaces]_vars

(* a call at depth 0 is about to be answered from the table with a score  *)
(* that is not the evaluation of its position, while the same hash is also *)
(* stored for another depth                                                *)
C21_Witness ==
  /\ pc = "call"
  /\ CallKey \in DOMAIN ttable
  /\ Top.depth = 0
  /\ ttable[CallKey] # evaluate(NodeFen(Top), DEFAULT_PARAMS)
  /\ \E k \in DOMAIN ttable : k[1] = CallKey[1] /\ k[2] # Top.depth

(* C22: every negamax invocation that goes on past its deadline test scores *)
(* a position already won by the side to move +WIN_SCORE and a position     *)
(* already won by the opponent -WIN_SCORE, at any depth and whatever moves  *)
(* exist, before any move is generated.                                     *)
C22_WonPositionsScored ==
  [][(pc = "call" /\ pc' # "raise") =>
       /\ WonHere(Top) => (pc' = "ret" /\ retval' = WIN_SCORE)
       /\ (~WonHere(Top) /\ LostHere(Top)) => (pc' = "ret" /\ retval' = -WIN_SCORE)]_vars

(* C23: the value negamax returns at a leaf is the evaluation from the side *)
(* to move's perspective, for player 1 and for player 2: of two leaf        *)
(* positions that differ only in one unit of the side not to move, the one  *)
(* without that unit, which is the better one for the side to move, gets    *)
(* the higher value.                                                        *)
C23_LeafValueForMover ==
  (pc = "idle" /\ Len(out) = 2) => out[2] > out[1]

(* C24: for every position string and either side to move, the mover count *)
(* and the enemy count detect_game_phase works with are the numbers of that *)
(* side's units (towers plus guardian) on the board, so their sum is the    *)
(* number of units on the board and the differential is mover units minus   *)
(* enemy units.                                                             *)
C24_CountsAreUnitsOnBoard ==
  ph_phase # "none" =>
    /\ count_my_pieces(ph_fen) = PhMine
    /\ count_enemy_pieces(ph_fen) = PhTheirs
    /\ count_my_pieces(ph_fen) + count_enemy_pieces(ph_fen) = PhMine + PhTheirs
    /\ diff_of_pieces(ph_fen) = PhMine - PhTheirs

(* the rows a side starts on: red on the first three rows of the position *)
(* string, blue on the last three                                         *)
HomeRows(player) == IF player = 1 THEN 0..2 ELSE 4..6

UnitsOnRows(board, player, ys) ==
  Cardinality({pos \in guardian_of(board, player) \cup TowerBits(board, player) :
                 BitY(pos) \in ys})

(* C25: the invasion count detect_game_phase works with is the number of  *)
(* enemy units standing on the mover's own home rows (red's at the top of *)
(* the position string, blue's at the bottom); in the start position it   *)
(* is 0 for either side to move.                                          *)
C25_InvasionOnOwnHomeRows ==
  ph_phase # "none" =>
    /\ count_enemy_pieces_in_half(ph_fen)
         = UnitsOnRows(parse_fen(ph_fen).board, 3 - PhMover, HomeRows(PhMover))
    /\ parse_fen(ph_fen).board = parse_fen(StartFen).board =>
         count_enemy_pieces_in_half(ph_fen) = 0

(* a step in which negamax is called: by the driver, for a real move or as *)
(* a null-move probe                                                       *)
C26_CalleeDepth ==
  Len(stack') = Len(stack) + 1 =>
    LET callee == stack'[Len(stack')] IN
      IF stack = <<>> THEN callee.depth = depth - 1
      ELSE LET caller == stack'[Len(stack)] IN
             /\ caller.depth = Top.depth
             /\ caller.stage \in {"null", "loop"}
             /\ caller.stage = "loop" => callee.depth = caller.depth - 1
             /\ caller.stage = "null" =>
                  callee.depth = caller.depth - 1 - NULL_MOVE_REDUCTION

C26_DepthNotNegative == \A i \in DOMAIN stack : stack[i].depth >= 0

C26_Terminates == (pc # "idle") ~> (pc = "idle")

(* C26: every recursive negamax call gets the caller's depth minus 1 for a  *)
(* real move and the caller's depth minus 1 minus NULL_MOVE_REDUCTION for a *)
(* null-move probe; depth is never negative at any invocation, and every    *)
(* choose_best_move call terminates.                                        *)
C26_DepthDecreasesToZero ==
  /\ [][C26_CalleeDepth]_vars
  /\ []C26_DepthNotNegative
  /\ C26_Terminates

(* a probe called by a node of depth 3 whose own caller searched a real move *)
C26_Witness ==
  /\ pc = "call"
  /\ Len(stack) = 2
  /\ stack[1].stage = "null"
  /\ stack[1].depth = depth - 1
  /\ stack[2].depth = stack[1].depth - 1 - NULL_MOVE_REDUCTION
  /\ stack[2].depth > 0

(* the frame in its move loop that has just got a child's result, and the *)
(* running best and lower bound that result gives                         *)
InLoop == pc = "ret" /\ stack # <<>> /\ Top.stage = "loop"

BestNow == IF -retval > Top.best THEN -retval ELSE Top.best

AlphaNow == IF BestNow > Top.alpha THEN BestNow ELSE Top.alpha

(* a child is called on a copy of the position with the move made, the *)
(* other player to move and the window (-beta, -alpha)                  *)
C27_ChildCall ==
  (Len(stack') = Len(stack) + 1 /\ stack # <<>> /\ stack'[Len(stack)].stage = "loop") =>
    LET caller == stack'[Len(stack)]
        callee == stack'[Len(stack')]
    IN /\ caller.rules = Top.rules
       /\ caller.beta = Top.beta
       /\ caller.alpha >= Top.alpha
       /\ callee.rules.board = make_move(caller.rules.board, caller.moves[caller.i])
       /\ callee.rules.current_player = 3 - caller.player
       /\ callee.player = 3 - caller.player
       /\ callee.alpha = -caller.beta
       /\ callee.beta = -caller.alpha

(* after a child's result: best is the maximum so far, alpha follows it, the *)
(* loop goes on exactly while best < WIN_SCORE and alpha < beta and a move   *)
(* is left, and otherwise best is cached and returned                        *)
C27_AfterChild ==
  InLoop =>
    IF BestNow >= WIN_SCORE \/ AlphaNow >= Top.beta \/ Top.i = Len(Top.moves)
    THEN /\ pc' = "ret"
         /\ stack' = Pop
         /\ retval' = BestNow
         /\ ttable' = TableStore(ttable, Top.key, BestNow)
    ELSE /\ pc' = "call"
         /\ Len(stack') = Len(stack) + 1
         /\ stack'[Len(stack)].best = BestNow
         /\ stack'[Len(stack)].alpha = AlphaNow
         /\ stack'[Len(stack)].i = Top.i + 1

(* C27: in negamax's move loop each child is searched on a copy of the      *)
(* position with the window (-beta, -alpha) and the other player to move;   *)
(* best is the maximum of the negated child results so far, alpha never     *)
(* decreases, beta never changes, the loop stops at the first child after   *)
(* which best >= WIN_SCORE or alpha >= beta, and best is cached and returned. *)
C27_MoveLoop == [][C27_ChildCall /\ C27_AfterChild]_vars

(* a cutoff: alpha has reached beta below WIN_SCORE with moves left, in a *)
(* frame whose alpha was raised by an earlier child                       *)
C27_Witness ==
  /\ InLoop
  /\ Top.i > 1
  /\ Top.i < Len(Top.moves)
  /\ Top.alpha > -INF
  /\ Top.alpha < Top.beta
  /\ BestNow < WIN_SCORE
  /\ AlphaNow >= Top.beta

(* the value of a position searched to a depth over all its moves, with win *)
(* scored as win: negamax without table, window and probe                   *)
RECURSIVE FullWidth(_, _, _, _)
FullWidth(board, player, d, win) ==
  IF check_win_by_distance_or_capture(board, player) THEN win
  ELSE IF check_win_by_distance_or_capture(board, 3 - player) THEN -win
  ELSE LET moves == get_legal_moves(board, player) IN
         IF d = 0 \/ moves = <<>> THEN evaluate(to_fen(board, player), DEFAULT_PARAMS)
         ELSE MaxOf({-FullWidth(make_move(board, moves[i]), 3 - player, d - 1, win) :
                       i \in DOMAIN moves})

(* C28: without key collisions, every score stored in ttable for a position, *)
(* side to move and remaining depth is the exact full-width negamax value of *)
(* that position at that depth, so that a later hit under another window     *)
(* returns what a fresh search would return.                                 *)
C28_StoredScoreIsExact ==
  [][(hash_seed = FullKey /\ pc \in {"call", "ret"} /\ stack # <<>> /\ ttable' # ttable) =>
       retval' = FullWidth(Top.rules.board, Top.player, Top.depth, WIN_SCORE)]_vars

(* Min_max.py line 12 *)
MINMAX_WIN_SCORE == 1000000

(* Min_max.py lines 30-55: the search over all moves; the break at a won *)
(* child leaves the maximum as it is                                     *)
minmax(board, depth_left, player) == FullWidth(board, player, depth_left, MINMAX_WIN_SCORE)

(* Min_max.py lines 80-85: the score of each ordered root move at the depth *)
(* ceiling of the search                                                    *)
MinmaxAtRoot ==
  [fen_str \in PlainFens |->
     [i \in DOMAIN Prepared[fen_str].moves |->
        -minmax(make_move(Prepared[fen_str].rules.board, Prepared[fen_str].moves[i]),
                PruneFreeCap - 1, 3 - Prepared[fen_str].rules.current_player)]]

(* with a collision-free key and no node above depth 2 the table answers *)
(* leaves only, with the score the leaf would get again: it prunes nothing *)
C29_TableAnswersLeavesOnly ==
  (hash_seed = FullKey /\ pc = "call" /\ NodeKey(Top) \in DOMAIN ttable) =>
    /\ Top.depth = 0
    /\ ttable[NodeKey(Top)] = FullWidth(Top.rules.board, Top.player, 0, WIN_SCORE)

C29_ChosenIsBest ==
  (Finished /\ hash_seed = FullKey /\ result # NoMove) =>
    \E i \in DOMAIN MinmaxAtRoot[fen_in] :
      /\ Prepared[fen_in].moves[i] = result
      /\ \A j \in DOMAIN MinmaxAtRoot[fen_in] :
           MinmaxAtRoot[fen_in][j] <= MinmaxAtRoot[fen_in][i]

(* C29: with the table and the null-move probe out of play and no deadline *)
(* hit, the root move the alpha-beta search chooses at a fixed depth is a   *)
(* root move of maximal value under Min_max.minmax with the same evaluator  *)
(* and depth.                                                               *)
C29_AlphaBetaChoosesMinmaxBest == C29_TableAnswersLeavesOnly /\ C29_ChosenIsBest

(* a full search to the ceiling whose chosen move is worth less than a win *)
(* and more than every root move ordered before it                         *)
C29_Witness ==
  /\ Finished
  /\ hash_seed = FullKey
  /\ ret_path = "complete"
  /\ depth = PruneFreeCap
  /\ \E i \in DOMAIN MinmaxAtRoot[fen_in] :
       /\ i > 2
       /\ Prepared[fen_in].moves[i] = result
       /\ \A j \in 1..(i - 1) : MinmaxAtRoot[fen_in][j] < MinmaxAtRoot[fen_in][i]
       /\ MinmaxAtRoot[fen_in][i] < WIN_SCORE

(* C30: play_game returns 0 (draw) only if neither player satisfies the win *)
(* condition in the final position: a game in which a move satisfies the    *)
(* win condition for a player, on whichever ply up to and including ply     *)
(* max_moves, is reported as a win for that player.                         *)
C30_DrawOnlyWithoutWinner ==
  out # <<>> =>
    /\ out[1] = 0 => GameWinner = 0
    /\ GameWinner # 0 => out[1] = GameWinner

=============================================================================
